---------------------------- MODULE Spec2Model ----------------------------
(***************************************************************************)
(* Acquisition-OS: the calculation core of the browser application.        *)
(*                                                                         *)
(*   - the buy-box fit scorer (calculateOverallFitScore), at its two call  *)
(*     sites: the buy-box screen and the sourcing engine;                  *)
(*   - the deal-structure calculator (ValuationCalculator.calculations);   *)
(*   - the financial normalisation engine                                  *)
(*     (FinancialAnalysisHub.calculationResults) and the projection        *)
(*     modeler's handleLoadFromAnalysis.                                   *)
(*                                                                         *)
(* JavaScript strings are sequences of one-character strings, so that      *)
(* split, trim, toLowerCase, replace, parseFloat, parseInt and Number act  *)
(* on characters as they do in the source.  JavaScript numbers are exact   *)
(* rationals (records [n, d]) in the financial calculators; in the fit     *)
(* scorer, whose result is rounded to an integer, they are IEEE-754        *)
(* binary64 values with round-to-nearest-even after every operation.       *)
(***************************************************************************)
EXTENDS Integers, Sequences, FiniteSets, TLC

(***************************************************************************)
(* Strings as character sequences                                          *)
(***************************************************************************)

Digits == <<"0", "1", "2", "3", "4", "5", "6", "7", "8", "9">>
UpperCase == <<"A", "B", "C", "D", "E", "F", "G", "H", "I", "J", "K", "L", "M",
               "N", "O", "P", "Q", "R", "S", "T", "U", "V", "W", "X", "Y", "Z">>
LowerCase == <<"a", "b", "c", "d", "e", "f", "g", "h", "i", "j", "k", "l", "m",
               "n", "o", "p", "q", "r", "s", "t", "u", "v", "w", "x", "y", "z">>

IsDigit(c) == \E i \in 1..10 : Digits[i] = c
DigitValue(c) == (CHOOSE i \in 1..10 : Digits[i] = c) - 1
IsWhiteSpace(c) == c \in {" ", "\n", "\t", "\r"}

\* String.prototype.toLowerCase on one character
LowerChar(c) ==
    IF \E i \in 1..26 : UpperCase[i] = c
    THEN LowerCase[CHOOSE i \in 1..26 : UpperCase[i] = c]
    ELSE c

\* String.prototype.toLowerCase
ToLowerCase(s) == [i \in 1..Len(s) |-> LowerChar(s[i])]

\* String.prototype.trim
Trim(s) ==
    LET keep == {i \in 1..Len(s) : ~IsWhiteSpace(s[i])}
    IN IF keep = {} THEN <<>>
       ELSE LET lo == CHOOSE i \in keep : \A j \in keep : i <= j
                hi == CHOOSE i \in keep : \A j \in keep : i >= j
            IN SubSeq(s, lo, hi)

\* whether pat occurs in s at position i
OccursAt(s, pat, i) ==
    /\ i >= 1
    /\ i + Len(pat) - 1 <= Len(s)
    /\ SubSeq(s, i, i + Len(pat) - 1) = pat

\* String.prototype.indexOf, 1-based; 0 when pat does not occur
IndexOf(s, pat) ==
    LET hits == {i \in 1..Len(s) : OccursAt(s, pat, i)}
    IN IF hits = {} THEN 0 ELSE CHOOSE i \in hits : \A j \in hits : i <= j

\* String.prototype.split with a non-empty string separator
RECURSIVE Split(_, _)
Split(s, sep) ==
    LET i == IndexOf(s, sep)
    IN IF i = 0 THEN <<s>>
       ELSE <<SubSeq(s, 1, i - 1)>> \o Split(SubSeq(s, i + Len(sep), Len(s)), sep)

\* Array.prototype.join
RECURSIVE Join(_, _)
Join(parts, sep) ==
    IF Len(parts) = 0 THEN <<>>
    ELSE IF Len(parts) = 1 THEN parts[1]
    ELSE parts[1] \o sep \o Join(Tail(parts), sep)

\* s.replace(/<literal>/g, rep) for a literal pattern: the non-overlapping
\* occurrences, left to right, are those split cuts at
ReplaceAll(s, pat, rep) == Join(Split(s, pat), rep)

\* s.replace(/[chars]/g, '') : drop every character of the class
RemoveChars(s, class) == SelectSeq(s, LAMBDA c : c \notin class)

\* s.replace(/[^chars]/g, '') : keep only the characters of the class
KeepChars(s, class) == SelectSeq(s, LAMBDA c : c \in class)

\* s.replace(/<[^>]+>/g, '') : a match starts at a "<", takes one or more
\* characters other than ">" and ends at the next ">"
RECURSIVE StripTags(_)
StripTags(s) ==
    IF Len(s) = 0 THEN <<>>
    ELSE IF s[1] # "<" THEN <<s[1]>> \o StripTags(Tail(s))
    ELSE LET close == IndexOf(s, <<">">>)
         IN IF close >= 3
            THEN StripTags(SubSeq(s, close + 1, Len(s)))
            ELSE <<s[1]>> \o StripTags(Tail(s))

\* Array.prototype.slice(k)
Slice(a, k) == SubSeq(a, k + 1, Len(a))

(***************************************************************************)
(* IEEE-754 binary64 arithmetic on non-negative values.                    *)
(* A natural number of any size is a sequence of limbs in base 2^15, least *)
(* significant first, with no leading zero limb; a double is [m, e] with   *)
(* value m * 2^e and m of exactly 53 bits, or zero.  Every operation        *)
(* computes the exact result and rounds it to nearest, ties to even.       *)
(***************************************************************************)

Base == 2^15

RECURSIVE BTrim(_)
BTrim(a) ==
    IF Len(a) > 0 /\ a[Len(a)] = 0 THEN BTrim(SubSeq(a, 1, Len(a) - 1)) ELSE a

RECURSIVE BFromInt(_)
BFromInt(n) == IF n = 0 THEN <<>> ELSE <<n % Base>> \o BFromInt(n \div Base)

RECURSIVE BToInt(_)
BToInt(a) == IF a = <<>> THEN 0 ELSE a[1] + Base * BToInt(Tail(a))

RECURSIVE BMulCarry(_, _, _)
BMulCarry(a, c, carry) ==
    IF a = <<>> THEN BFromInt(carry)
    ELSE LET p == a[1] * c + carry
         IN <<p % Base>> \o BMulCarry(Tail(a), c, p \div Base)

\* a * c for 0 <= c <= Base
BMulSmall(a, c) == BTrim(BMulCarry(a, c, 0))

RECURSIVE BAddCarry(_, _, _)
BAddCarry(a, b, carry) ==
    IF a = <<>> /\ b = <<>> THEN BFromInt(carry)
    ELSE LET x == IF a = <<>> THEN 0 ELSE a[1]
             y == IF b = <<>> THEN 0 ELSE b[1]
             s == x + y + carry
         IN <<s % Base>> \o BAddCarry(IF a = <<>> THEN a ELSE Tail(a),
                                      IF b = <<>> THEN b ELSE Tail(b),
                                      s \div Base)

BAdd(a, b) == BTrim(BAddCarry(a, b, 0))

RECURSIVE BDivRaw(_, _)
BDivRaw(a, t) ==
    IF a = <<>> THEN [q |-> <<>>, r |-> 0]
    ELSE LET h == BDivRaw(Tail(a), t)
             cur == h.r * Base + a[1]
         IN [q |-> <<cur \div t>> \o h.q, r |-> cur % t]

\* quotient and remainder of a by t, 0 < t <= Base
BDivSmall(a, t) == LET d == BDivRaw(a, t) IN [q |-> BTrim(d.q), r |-> d.r]

RECURSIVE BitLenSmall(_)
BitLenSmall(n) == IF n = 0 THEN 0 ELSE 1 + BitLenSmall(n \div 2)

BBits(a) == IF a = <<>> THEN 0 ELSE 15 * (Len(a) - 1) + BitLenSmall(a[Len(a)])

BShl(a, k) ==
    IF a = <<>> THEN a
    ELSE BMulSmall([i \in 1..(k \div 15) |-> 0] \o a, 2^(k % 15))

BShr(a, k) ==
    IF k \div 15 >= Len(a) THEN <<>>
    ELSE BDivSmall(SubSeq(a, (k \div 15) + 1, Len(a)), 2^(k % 15)).q

BIsOdd(a) == a # <<>> /\ a[1] % 2 = 1

\* the exact value M * 2^e (plus a positive amount below one unit of M when
\* sticky), rounded to the nearest double, ties to even
RoundToDouble(M, e, sticky) ==
    LET n == BBits(M)
    IN IF n = 0 THEN [m |-> <<>>, e |-> 0]
       ELSE IF n <= 53 THEN [m |-> BShl(M, 53 - n), e |-> e - (53 - n)]
       ELSE LET sh == n - 53
                q == BShr(M, sh)
                half == BIsOdd(BShr(M, sh - 1))
                low == sticky \/ BShl(BShr(M, sh - 1), sh - 1) # M
                q1 == IF half /\ (low \/ BIsOdd(q)) THEN BAdd(q, <<1>>) ELSE q
            IN IF BBits(q1) = 54
               THEN [m |-> BShr(q1, 1), e |-> e + sh + 1]
               ELSE [m |-> q1, e |-> e + sh]

\* the double of a natural number
DFromInt(n) == RoundToDouble(BFromInt(n), 0, FALSE)

\* the literal 0.3: 5404319552844595 * 2^-54
D03 == [m |-> <<13107, 26214, 19660, 153>>, e |-> -54]

\* x * c in double arithmetic, c a natural number up to Base
DMulInt(x, c) == RoundToDouble(BMulSmall(x.m, c), x.e, FALSE)

\* x + y in double arithmetic
DAdd(x, y) ==
    IF x.m = <<>> THEN y
    ELSE IF y.m = <<>> THEN x
    ELSE LET e == IF x.e < y.e THEN x.e ELSE y.e
         IN RoundToDouble(BAdd(BShl(x.m, x.e - e), BShl(y.m, y.e - e)), e, FALSE)

\* x / t in double arithmetic, t a natural number, 0 < t <= Base
DDivInt(x, t) ==
    LET d == BDivSmall(BShl(x.m, 30), t)
    IN RoundToDouble(d.q, x.e - 30, d.r # 0)

\* a * b
RECURSIVE BMul(_, _)
BMul(a, b) ==
    IF a = <<>> \/ b = <<>> THEN <<>>
    ELSE BAdd(BMulSmall(a, b[1]),
              IF Len(b) = 1 THEN <<>> ELSE <<0>> \o BMul(a, Tail(b)))

\* x * y in double arithmetic
DMul(x, y) == RoundToDouble(BMul(x.m, y.m), x.e + y.e, FALSE)

\* faulty variant: Math.floor in place of Math.round
MathFloor(x) ==
    IF x.m = <<>> THEN 0
    ELSE IF x.e >= 0 THEN BToInt(BShl(x.m, x.e))
    ELSE BToInt(BShr(x.m, -x.e))

\* Math.round: the integer nearest to x, a tie going up
MathRound(x) ==
    IF x.m = <<>> THEN 0
    ELSE IF x.e >= 0 THEN BToInt(BShl(x.m, x.e))
    ELSE BToInt(BShr(BAdd(x.m, BShl(<<1>>, (-x.e) - 1)), -x.e))

(***************************************************************************)
(* The buy box and the fit scorer                                          *)
(***************************************************************************)

\* JavaScript's null and undefined, as values of a criterion-key lookup
Null == "null"
Undefined == "undefined"

\* the keys of BuyBoxCriteria, in declaration order
BuyBoxKeys ==
    <<"geography", "industryType", "minSde", "maxSde", "customerConcentration",
      "minRecurringRevenue", "growthLevers", "industryTrends",
      "industryExpertise", "sellerRole", "teamStrength", "businessModel",
      "systemMessiness", "myPrimaryRole", "desiredCulture",
      "desiredCultureRationale", "personalGoal", "personalGoalRationale">>

\* a criterion carrying a weight; one that is an array; one that is a string
Weighted(w) == [kind |-> "object", weight |-> w]
ArrayField == [kind |-> "array"]
StringField == [kind |-> "string"]

UnweightedKeys ==
    {"industryExpertise", "desiredCulture", "desiredCultureRationale",
     "personalGoal", "personalGoalRationale"}

defaultBuyBoxCriteria ==
    [geography |-> Weighted(2), industryType |-> Weighted(3),
     minSde |-> Weighted(3), maxSde |-> Weighted(3),
     customerConcentration |-> Weighted(2), minRecurringRevenue |-> Weighted(1),
     growthLevers |-> Weighted(1), industryTrends |-> Weighted(1),
     industryExpertise |-> ArrayField,
     sellerRole |-> Weighted(2), teamStrength |-> Weighted(2),
     businessModel |-> Weighted(1), systemMessiness |-> Weighted(1),
     myPrimaryRole |-> Weighted(1),
     desiredCulture |-> StringField, desiredCultureRationale |-> StringField,
     personalGoal |-> StringField, personalGoalRationale |-> StringField]

\* a score: a number, or null
Number(n) == [kind |-> "number", value |-> n]
NullScore == [kind |-> "null"]

criteriaNameToKeyMap == <<
    [name |-> <<"G", "e", "o", "g", "r", "a", "p", "h", "y">>,
     key |-> "geography"],
    [name |-> <<"I", "n", "d", "u", "s", "t", "r", "y">>,
     key |-> "industryType"],
    [name |-> <<"F", "i", "n", "a", "n", "c", "i", "a", "l", "s", " ", "(",
              "S", "D", "E", ")">>,
     key |-> "minSde"],
    [name |-> <<"R", "e", "v", "e", "n", "u", "e", " ", "Q", "u", "a", "l",
              "i", "t", "y">>,
     key |-> "minRecurringRevenue"],
    [name |-> <<"R", "i", "s", "k", " ", "(", "C", "o", "n", "c", "e", "n",
              "t", "r", "a", "t", "i", "o", "n", ")">>,
     key |-> "customerConcentration"],
    [name |-> <<"G", "r", "o", "w", "t", "h", " ", "L", "e", "v", "e", "r",
              "s">>,
     key |-> "growthLevers"],
    [name |-> <<"I", "n", "d", "u", "s", "t", "r", "y", " ", "T", "r", "e",
              "n", "d", "s">>,
     key |-> "industryTrends"],
    [name |-> <<"S", "e", "l", "l", "e", "r", " ", "R", "o", "l", "e">>,
     key |-> "sellerRole"],
    [name |-> <<"T", "e", "a", "m", " ", "S", "t", "r", "e", "n", "g", "t",
              "h">>,
     key |-> "teamStrength"],
    [name |-> <<"B", "u", "s", "i", "n", "e", "s", "s", " ", "M", "o", "d",
              "e", "l">>,
     key |-> "businessModel"],
    [name |-> <<"S", "y", "s", "t", "e", "m", "s">>,
     key |-> "systemMessiness"],
    [name |-> <<"M", "y", " ", "R", "o", "l", "e">>,
     key |-> "myPrimaryRole"],
    [name |-> <<"I", "n", "d", "u", "s", "t", "r", "y", " ", "E", "x", "p",
              "e", "r", "t", "i", "s", "e">>,
     key |-> "industryExpertise"],
    [name |-> <<"C", "u", "l", "t", "u", "r", "e">>,
     key |-> Null] >>

\* criteriaNameToKeyMap[criteriaName]: the key, null, or undefined
LookupKey(criteriaName) ==
    LET hits == {i \in 1..Len(criteriaNameToKeyMap) :
                    criteriaNameToKeyMap[i].name = criteriaName}
    IN IF hits = {} THEN Undefined
       ELSE criteriaNameToKeyMap[CHOOSE i \in hits : TRUE].key

\* typeof criteria === 'object' && criteria !== null && !Array.isArray(criteria)
\*   && 'weight' in criteria && typeof criteria.weight === 'number'
HasNumberWeight(criteria) == criteria.kind = "object" /\ "weight" \in DOMAIN criteria

\* for (const key in buyBox) { ... totalPossibleScore += criteria.weight }
RECURSIVE SumWeights(_, _)
SumWeights(buyBox, keys) ==
    IF keys = <<>> THEN 0
    ELSE (IF HasNumberWeight(buyBox[keys[1]]) THEN buyBox[keys[1]].weight ELSE 0)
         + SumWeights(buyBox, Tail(keys))

\* row.split('|').map(c => c.trim())
Columns(row) ==
    LET cells == Split(row, <<"|">>)
    IN [i \in 1..Len(cells) |-> Trim(cells[i])]

\* faulty variant: an unknown ("?") earns the full weight
AddCredit_FullForUnknown(achievedScore, fit, weight) ==
    IF fit = <<"y", "e", "s">> \/ fit = <<"?">>
    THEN DAdd(achievedScore, DFromInt(weight))
    ELSE achievedScore

\* faulty variant: every fit cell other than "yes" earns the partial credit
AddCredit_PartialForAnything(achievedScore, fit, weight) ==
    IF fit = <<"y", "e", "s">> THEN DAdd(achievedScore, DFromInt(weight))
    ELSE DAdd(achievedScore, DMulInt(D03, weight))

\* achievedScore += weight ; achievedScore += weight * 0.3
AddCredit(achievedScore, fit, weight) ==
    IF fit = <<"y", "e", "s">> THEN DAdd(achievedScore, DFromInt(weight))
    ELSE IF fit = <<"?">> THEN DAdd(achievedScore, DMulInt(D03, weight))
    ELSE achievedScore

(* ---- the buy-box screen: CentralDashboard.tsx ---- *)

\* faulty variant: the max-SDE weight is counted beside the min-SDE weight
totalPossibleScore_CountingMaxSde(buyBox) == SumWeights(buyBox, BuyBoxKeys)

totalPossibleScore_BuyBox(buyBox) ==
    LET sum == SumWeights(buyBox, BuyBoxKeys)
    IN IF buyBox.minSde.weight > 0 /\ buyBox.maxSde.weight > 0
       THEN sum - buyBox.maxSde.weight
       ELSE sum

\* the body of rows.forEach for one row
scoreRow_BuyBox(achievedScore, row, buyBox) ==
    LET columns == Columns(row)
    IN IF Len(columns) >= 4
       THEN LET criteriaNameWithWeight == columns[2]
                criteriaName ==
                    ReplaceAll(Trim(Split(criteriaNameWithWeight,
                                 <<" ", "(", "W", "e", "i", "g", "h", "t", ":">>)[1]),
                               <<"*", "*">>, <<>>)
                fit == StripTags(ToLowerCase(columns[4]))
                buyBoxKey == LookupKey(criteriaName)
            IN IF buyBoxKey \notin {Null, Undefined}
                  /\ HasNumberWeight(buyBox[buyBoxKey])
               THEN AddCredit(achievedScore, fit, buyBox[buyBoxKey].weight)
               ELSE achievedScore
       ELSE achievedScore

RECURSIVE achievedScore_BuyBox(_, _, _)
achievedScore_BuyBox(achievedScore, rows, buyBox) ==
    IF rows = <<>> THEN achievedScore
    ELSE achievedScore_BuyBox(scoreRow_BuyBox(achievedScore, rows[1], buyBox),
                              Tail(rows), buyBox)

calculateOverallFitScore_BuyBox(scorecard, buyBox) ==
    IF scorecard = <<>> THEN NullScore
    ELSE LET totalPossibleScore == totalPossibleScore_BuyBox(buyBox)
         IN IF totalPossibleScore = 0 THEN Number(50)
            ELSE LET rows == Slice(Split(scorecard, <<"\n">>), 2)
                     achievedScore ==
                         achievedScore_BuyBox(DFromInt(0), rows, buyBox)
                 IN Number(MathRound(DMulInt(DDivInt(achievedScore,
                                                     totalPossibleScore), 100)))

(* ---- the sourcing engine: SourcingEngine.tsx ---- *)

totalPossibleScore_Sourcing(buyBox) ==
    LET sum == SumWeights(buyBox, BuyBoxKeys)
    IN IF buyBox.minSde.weight > 0 /\ buyBox.maxSde.weight > 0
       THEN sum - buyBox.maxSde.weight
       ELSE sum

scoreRow_Sourcing(achievedScore, row, buyBox) ==
    LET columns == Columns(row)
    IN IF Len(columns) >= 4
       THEN LET criteriaNameWithWeight == columns[2]
                criteriaName ==
                    Trim(Split(criteriaNameWithWeight,
                               <<" ", "(", "W", "e", "i", "g", "h", "t", ":">>)[1])
                fit == ToLowerCase(columns[4])
                buyBoxKey == LookupKey(criteriaName)
            IN IF buyBoxKey \notin {Null, Undefined}
                  /\ HasNumberWeight(buyBox[buyBoxKey])
               THEN AddCredit(achievedScore, fit, buyBox[buyBoxKey].weight)
               ELSE achievedScore
       ELSE achievedScore

RECURSIVE achievedScore_Sourcing(_, _, _)
achievedScore_Sourcing(achievedScore, rows, buyBox) ==
    IF rows = <<>> THEN achievedScore
    ELSE achievedScore_Sourcing(scoreRow_Sourcing(achievedScore, rows[1], buyBox),
                                Tail(rows), buyBox)

\* faulty variant: a buy box without weights scores 0
calculateOverallFitScore_ZeroDefault(scorecard, buyBox) ==
    IF scorecard = <<>> THEN NullScore
    ELSE LET totalPossibleScore == totalPossibleScore_Sourcing(buyBox)
         IN IF totalPossibleScore = 0 THEN Number(0)
            ELSE LET rows == Slice(Split(scorecard, <<"\n">>), 2)
                     achievedScore ==
                         achievedScore_Sourcing(DFromInt(0), rows, buyBox)
                 IN Number(MathRound(DMulInt(DDivInt(achievedScore,
                                                     totalPossibleScore), 100)))

calculateOverallFitScore_Sourcing(scorecard, buyBox) ==
    IF scorecard = <<>> THEN NullScore
    ELSE LET totalPossibleScore == totalPossibleScore_Sourcing(buyBox)
         IN IF totalPossibleScore = 0 THEN Number(50)
            ELSE LET rows == Slice(Split(scorecard, <<"\n">>), 2)
                     achievedScore ==
                         achievedScore_Sourcing(DFromInt(0), rows, buyBox)
                 IN Number(MathRound(DMulInt(DDivInt(achievedScore,
                                                     totalPossibleScore), 100)))

(***************************************************************************)
(* The scorecards the language model returns                               *)
(***************************************************************************)

\* longest table (data rows) and largest stored weight that are explored
MaxRows == 2
MaxWeight == 3
MaxListings == 1

\* "| Criteria | Status | Fit | Rationale |" and the separator line under it
TableHeader ==
    <<"|", " ", "C", "r", "i", "t", "e", "r", "i", "a", " ", "|", " ", "S",
    "t", "a", "t", "u", "s", " ", "|", " ", "F", "i", "t", " ", "|", " ",
    "R", "a", "t", "i", "o", "n", "a", "l", "e", " ", "|">>
TableSeparator ==
    <<"|", "-", "-", "-", "|", "-", "-", "-", "|", "-", "-", "-", "|", "-",
    "-", "-", "|">>

\* data rows the language model may emit; beside each text, what a reader
\* of the table sees in it: the criterion named, the fit cell, and whether
\* the cells carry bold or HTML markup, and the number of cells
RowPool == <<
    [text |-> <<"|", " ", "G", "e", "o", "g", "r", "a", "p", "h", "y", " ",
              "(", "W", "e", "i", "g", "h", "t", ":", " ", "2", ")", " ",
              "|", " ", "H", "o", "u", "s", "t", "o", "n", " ", "|", " ",
              "Y", "e", "s", " ", "|", " ", "o", "k", " ", "|">>,
     criterion |-> "geography", fit |-> "yes", markup |-> FALSE, cells |-> 4],
    [text |-> <<"|", " ", "I", "n", "d", "u", "s", "t", "r", "y", " ", "(",
              "W", "e", "i", "g", "h", "t", ":", " ", "3", ")", " ", "|",
              " ", "S", "a", "a", "S", " ", "|", " ", "N", "o", " ", "|",
              " ", "o", "k", " ", "|">>,
     criterion |-> "industryType", fit |-> "no", markup |-> FALSE, cells |-> 4],
    [text |-> <<"|", " ", "I", "n", "d", "u", "s", "t", "r", "y", " ", "(",
              "W", "e", "i", "g", "h", "t", ":", " ", "3", ")", " ", "|",
              " ", "S", "a", "a", "S", " ", "|", " ", "?", " ", "|", " ",
              "o", "k", " ", "|">>,
     criterion |-> "industryType", fit |-> "?", markup |-> FALSE, cells |-> 4],
    [text |-> <<"|", " ", "*", "*", "F", "i", "n", "a", "n", "c", "i", "a",
              "l", "s", " ", "(", "S", "D", "E", ")", "*", "*", " ", "(",
              "W", "e", "i", "g", "h", "t", ":", " ", "2", ")", " ", "|",
              " ", "$", "4", "0", "0", "k", " ", "|", " ", "<", "b", ">",
              "Y", "e", "s", "<", "/", "b", ">", " ", "|", " ", "o", "k",
              " ", "|">>,
     criterion |-> "minSde", fit |-> "yes", markup |-> TRUE, cells |-> 4],
    [text |-> <<"|", " ", "I", "n", "d", "u", "s", "t", "r", "y", " ", "E",
              "x", "p", "e", "r", "t", "i", "s", "e", " ", "|", " ", "S",
              "a", "a", "S", " ", "(", "E", "x", "p", "e", "r", "t", ")",
              " ", "|", " ", "Y", "e", "s", " ", "|", " ", "o", "k", " ",
              "|">>,
     criterion |-> "industryExpertise", fit |-> "yes", markup |-> FALSE, cells |-> 4],
    [text |-> <<"|", " ", "C", "u", "l", "t", "u", "r", "e", " ", "|", " ",
              "C", "a", "s", "u", "a", "l", " ", "|", " ", "Y", "e", "s",
              " ", "|", " ", "o", "k", " ", "|">>,
     criterion |-> "none", fit |-> "yes", markup |-> FALSE, cells |-> 4],
    [text |-> <<"|", " ", "G", "e", "o", "g", "r", "a", "p", "h", "y", " ",
              "|", " ", "Y", "e", "s", " ", "|">>,
     criterion |-> "geography", fit |-> "", markup |-> FALSE, cells |-> 2],
    [text |-> <<"G", "e", "o", "g", "r", "a", "p", "h", "y", ":", " ", "Y",
              "e", "s">>,
     criterion |-> "none", fit |-> "", markup |-> FALSE, cells |-> 1] >>

\* a reply that is no table at all
NoTableText ==
    <<"N", "o", " ", "l", "i", "s", "t", "i", "n", "g", " ", "d", "a", "t",
    "a", " ", "w", "a", "s", " ", "f", "o", "u", "n", "d", ".">>

\* the tables explored: at most MaxRows rows of the pool, in the pool's order
RowSeqs ==
    {rs \in UNION {[1..n -> 1..Len(RowPool)] : n \in 0..MaxRows} :
        \A i \in 1..(Len(rs) - 1) : rs[i] < rs[i + 1]}

RECURSIVE TableLines(_)
TableLines(rs) ==
    IF rs = <<>> THEN <<TableHeader, TableSeparator>>
    ELSE Append(TableLines(SubSeq(rs, 1, Len(rs) - 1)), RowPool[rs[Len(rs)]].text)

TableText(rs) == Join(TableLines(rs), <<"\n">>)

TableOf == [rs \in RowSeqs |-> TableText(rs)]

\* the empty reply, a blank line, prose, and the tables
Scorecards == {<<>>, <<"\n">>, NoTableText} \cup {TableOf[rs] : rs \in RowSeqs}

(***************************************************************************)
(* State: what App keeps for the screens (App.tsx useState) and what the   *)
(* deal-structure calculator keeps for itself                              *)
(***************************************************************************)

\* the buy-box screen and the sourcing engine
VARIABLES
    buyBox,                 \* the current BuyBoxCriteria
    aiResponse,             \* the scorecard text the language model replies with
    fitAnalysis,            \* [scorecardResult, overallFitScore] of the buy-box screen
    sourcingResultsGlobal   \* the analysed listings, newest first

fitVars == <<buyBox, aiResponse, fitAnalysis, sourcingResultsGlobal>>

\* the deal-structure calculator
VARIABLES
    valuationInputs,   \* App state: null, or the text of every input field
    isAdvancedView,    \* Simple / Advanced
    isStressed,        \* the stress-test switch
    errors             \* field name -> error message, set by the effect

valVars == <<valuationInputs, isAdvancedView, isStressed, errors>>

\* the financial analysis hub and the projection modeler
VARIABLES
    financialAnalysisData,   \* App state: null, or the hub's data
    projectionData,          \* App state: null, or the modeler's assumptions
    scanData                 \* the data a pending handleFileScan has captured, or NoScan

finVars == <<financialAnalysisData, projectionData, scanData>>

\* the sourcing engine's find-and-analyze run
VARIABLES
    isSourcingGlobal,    \* App state: the listing search is running
    isAnalyzingGlobal,   \* App state: the listings are being analysed
    sourcingRun          \* where handleFindDeals is: NoRun, or its step and listings

srcVars == <<isSourcingGlobal, isAnalyzingGlobal, sourcingRun>>

\* the signed-in user, the profiles, the buy-box history and the browser
VARIABLES
    user,                 \* AuthContext: the uid, or NoUser
    savedProfiles,        \* App state: the list of [name, criteria]
    currentProfileName,   \* App state: Name(n) or NullName
    past,                 \* useHistory: the states before buyBox (its present)
    future,               \* useHistory: the states undone
    localStorage          \* per uid, the items App keeps under its keys

appVars == <<user, savedProfiles, currentProfileName, past, future, localStorage>>

vars == <<fitVars, valVars, finVars, srcVars, appVars>>

(***************************************************************************)
(* Values of the state that stand for "nothing"                            *)
(***************************************************************************)

\* useState({ scorecardResult: '', fitAnalysisSources: null, overallFitScore: null })
NoFitAnalysis == [scorecardResult |-> <<>>, overallFitScore |-> NullScore]

\* useState<ValuationInputs | null>(null)
NullInputs == [null |-> TRUE]

\* useState<FinancialAnalysisData | null>(null)
NullData == [null |-> TRUE]

\* useState<ProjectionData | null>(null)
NullProjection == [null |-> TRUE]

\* isScanning is false: no handleFileScan is waiting for its reply
NoScan == [isScanning |-> FALSE]

\* handleFindDeals is not running
NoRun == [step |-> "idle"]

\* user is null
NoUser == "none"

\* the accounts explored
Users == {"u1", "u2"}

\* useState<string | null>('Default')
NullName == [null |-> TRUE]
Name(n) == [name |-> n]
DefaultName == <<"D", "e", "f", "a", "u", "l", "t">>

(***************************************************************************)
(* Local storage (App.tsx, the data saving effects)                        *)
(***************************************************************************)

\* localStorage.getItem of a key never written is null: an item is <<>> when
\* absent and <<value>> when present.  JSON.stringify followed by JSON.parse
\* gives back strings, finite numbers, null, arrays and plain objects as they
\* were, and the state kept here holds nothing else.
NoItem == <<>>
Item(value) == <<value>>

\* the items of a uid nothing was written for
EmptyStore ==
    [buyBoxProfiles |-> NoItem, valuationCalculatorInputs |-> NoItem,
     sourcingEngineResults |-> NoItem, buyBoxFitAnalysis |-> NoItem,
     financialAnalysisData |-> NoItem, projectionData |-> NoItem]

\* the data saving effects, for one uid: the three nullable states are
\* written only when they are not null
SaveEffects(store, profiles, inputs, results, fit, data, projection) ==
    [buyBoxProfiles |-> Item(profiles),
     valuationCalculatorInputs |->
         IF inputs = NullInputs THEN store.valuationCalculatorInputs ELSE Item(inputs),
     sourcingEngineResults |-> Item(results),
     buyBoxFitAnalysis |-> Item(fit),
     financialAnalysisData |->
         IF data = NullData THEN store.financialAnalysisData ELSE Item(data),
     projectionData |->
         IF projection = NullProjection THEN store.projectionData ELSE Item(projection)]

\* the effects that run after a handler has set state: each writes its state
\* when it has changed; financialAnalysisData is written when a new object
\* was set (the argument tells whether one was)
PersistedWith(dataWasSet) ==
    localStorage' =
        IF user' = NoUser THEN localStorage
        ELSE [localStorage EXCEPT ![user'] =
                 SaveEffects(@, savedProfiles', valuationInputs', sourcingResultsGlobal',
                             fitAnalysis',
                             IF dataWasSet THEN financialAnalysisData' ELSE NullData,
                             projectionData')]

Persisted == PersistedWith(financialAnalysisData' # financialAnalysisData)

\* what a handler of one screen leaves alone in App, and the effects after it
AppUnchanged ==
    /\ UNCHANGED <<user, savedProfiles, currentProfileName, past, future>>
    /\ Persisted

(***************************************************************************)
(* State of the buy-box screen and of the sourcing engine                  *)
(***************************************************************************)

\* a buy box in which every weighted criterion has weight 0
ZeroBuyBox ==
    [k \in DOMAIN defaultBuyBoxCriteria |->
        IF k \in UnweightedKeys THEN defaultBuyBoxCriteria[k] ELSE Weighted(0)]

\* the criteria of the profiles kept in local storage
StoredProfiles ==
    {defaultBuyBoxCriteria} \cup
    {[ZeroBuyBox EXCEPT !.geography = Weighted(g), !.industryType = Weighted(i),
                        !.minSde = Weighted(a), !.maxSde = Weighted(b)] :
        g \in {0, 2}, i \in 0..MaxWeight, a \in {0, 2}, b \in {0, 2}}

\* BuyBox.handleAnalyzeFitClick: the reply is streamed into scorecardResult,
\* then scored
handleAnalyzeFitClick ==
    /\ fitAnalysis' =
           [scorecardResult |-> aiResponse,
            overallFitScore |-> calculateOverallFitScore_BuyBox(aiResponse, buyBox)]
    /\ UNCHANGED <<buyBox, aiResponse, sourcingResultsGlobal>>
    /\ UNCHANGED <<valVars, finVars, srcVars>>
    /\ AppUnchanged

handleClearFitAnalysisData ==
    /\ fitAnalysis # NoFitAnalysis
    /\ fitAnalysis' = NoFitAnalysis
    /\ UNCHANGED <<buyBox, aiResponse, sourcingResultsGlobal>>
    /\ UNCHANGED <<valVars, finVars, srcVars>>
    /\ AppUnchanged

\* SourcingEngine.analyzeListings, for one listing: the third part of the
\* reply, trimmed, is the scorecard
analyzeListings ==
    /\ Len(sourcingResultsGlobal) < MaxListings
    /\ LET scorecard == Trim(aiResponse)
           overallFitScore == calculateOverallFitScore_Sourcing(scorecard, buyBox)
           newResult == [scorecard |-> scorecard,
                         overallFitScore |-> overallFitScore]
       IN sourcingResultsGlobal' = <<newResult>> \o sourcingResultsGlobal
    /\ UNCHANGED <<buyBox, aiResponse, fitAnalysis>>
    /\ UNCHANGED <<valVars, finVars, srcVars>>
    /\ AppUnchanged

\* the Clear Results button is disabled while isLoading
handleClearSourcingData ==
    /\ ~isSourcingGlobal /\ ~isAnalyzingGlobal
    /\ sourcingResultsGlobal # <<>>
    /\ sourcingResultsGlobal' = <<>>
    /\ UNCHANGED <<buyBox, aiResponse, fitAnalysis>>
    /\ UNCHANGED <<valVars, finVars, srcVars>>
    /\ AppUnchanged

FitNext ==
    \/ handleAnalyzeFitClick
    \/ handleClearFitAnalysisData
    \/ analyzeListings
    \/ handleClearSourcingData

(***************************************************************************)
(* The sourcing engine's find-and-analyze run (SourcingEngine)             *)
(***************************************************************************)

\* most listings a search reply holds
MaxFound == 2

\* handleFindDeals up to its first await; the button is disabled while
\* isLoading
handleFindDeals ==
    /\ ~isSourcingGlobal /\ ~isAnalyzingGlobal
    /\ sourcingRun = NoRun
    /\ isSourcingGlobal' = TRUE
    /\ isAnalyzingGlobal' = FALSE
    /\ sourcingResultsGlobal' = <<>>
    /\ sourcingRun' = [step |-> "search"]
    /\ UNCHANGED <<buyBox, aiResponse, fitAnalysis>>
    /\ UNCHANGED <<valVars, finVars>>
    /\ AppUnchanged

\* the search request throws, or its text is not JSON: the catch of
\* handleFindDeals
searchFailed ==
    /\ sourcingRun = [step |-> "search"]
    /\ isSourcingGlobal' = FALSE
    /\ sourcingRun' = NoRun
    /\ UNCHANGED isAnalyzingGlobal
    /\ UNCHANGED <<fitVars, valVars, finVars>>
    /\ AppUnchanged

\* the reply is null or an empty list: the early return
searchFoundNothing ==
    /\ sourcingRun = [step |-> "search"]
    /\ isSourcingGlobal' = FALSE
    /\ sourcingRun' = NoRun
    /\ UNCHANGED isAnalyzingGlobal
    /\ UNCHANGED <<fitVars, valVars, finVars>>
    /\ AppUnchanged

\* the reply lists some listings: setIsSourcingGlobal(false), then
\* analyzeListings up to its first await
searchFound(count) ==
    /\ sourcingRun = [step |-> "search"]
    /\ isSourcingGlobal' = FALSE
    /\ isAnalyzingGlobal' = TRUE
    /\ sourcingRun' = [step |-> "analyze", remaining |-> count]
    /\ UNCHANGED <<fitVars, valVars, finVars>>
    /\ AppUnchanged

\* the loop of analyzeListings, one listing whose reply has its three parts:
\* the result is put first; after the last listing the flag is lowered
listingAnalyzed ==
    /\ sourcingRun # NoRun /\ sourcingRun.step = "analyze"
    /\ LET scorecard == Trim(aiResponse)
           overallFitScore == calculateOverallFitScore_Sourcing(scorecard, buyBox)
           newResult == [scorecard |-> scorecard,
                         overallFitScore |-> overallFitScore]
       IN sourcingResultsGlobal' = <<newResult>> \o sourcingResultsGlobal
    /\ IF sourcingRun.remaining = 1
       THEN /\ isAnalyzingGlobal' = FALSE
            /\ sourcingRun' = NoRun
       ELSE /\ isAnalyzingGlobal' = isAnalyzingGlobal
            /\ sourcingRun' = [sourcingRun EXCEPT !.remaining = @ - 1]
    /\ UNCHANGED isSourcingGlobal
    /\ UNCHANGED <<buyBox, aiResponse, fitAnalysis>>
    /\ UNCHANGED <<valVars, finVars>>
    /\ AppUnchanged

\* an error result: { ...listing, scorecard: '', overallFitScore: null, error }
errorResult ==
    [scorecard |-> <<>>, overallFitScore |-> NullScore,
     error |-> "Failed to analyze this listing."]

\* the loop of analyzeListings, one listing whose request throws or whose
\* reply has fewer than three parts: the error result is put first and the
\* error is thrown again, out of the loop and of analyzeListings, into the
\* catch of handleFindDeals
listingFailed ==
    /\ sourcingRun # NoRun /\ sourcingRun.step = "analyze"
    /\ sourcingResultsGlobal' = <<errorResult>> \o sourcingResultsGlobal
    /\ isSourcingGlobal' = FALSE
    /\ sourcingRun' = NoRun
    /\ UNCHANGED isAnalyzingGlobal
    /\ UNCHANGED <<buyBox, aiResponse, fitAnalysis>>
    /\ UNCHANGED <<valVars, finVars>>
    /\ AppUnchanged

\* a reply of the language model arrives
SourcingReply ==
    \/ searchFailed
    \/ searchFoundNothing
    \/ \E count \in 1..MaxFound : searchFound(count)
    \/ listingAnalyzed
    \/ listingFailed

SourcingNext ==
    \/ handleFindDeals
    \/ SourcingReply
    \/ handleClearSourcingData

(***************************************************************************)
(* Rows with fewer cells than the table's header has                       *)
(***************************************************************************)

\* data rows with four, three, two and one cell, and for each the number of
\* cells a reader of the table counts in it
ShortRowPool == <<
    [text |-> <<"|", " ", "G", "e", "o", "g", "r", "a", "p", "h", "y", " ",
              "(", "W", "e", "i", "g", "h", "t", ":", " ", "2", ")", " ",
              "|", " ", "H", "o", "u", "s", "t", "o", "n", " ", "|", " ",
              "Y", "e", "s", " ", "|", " ", "o", "k", " ", "|">>,
     cells |-> 4],
    [text |-> <<"|", " ", "G", "e", "o", "g", "r", "a", "p", "h", "y", " ",
              "(", "W", "e", "i", "g", "h", "t", ":", " ", "2", ")", " ",
              "|", " ", "H", "o", "u", "s", "t", "o", "n", " ", "|", " ",
              "Y", "e", "s", " ", "|">>,
     cells |-> 3],
    [text |-> <<"|", " ", "I", "n", "d", "u", "s", "t", "r", "y", " ", "(",
              "W", "e", "i", "g", "h", "t", ":", " ", "3", ")", " ", "|",
              " ", "S", "a", "a", "S", " ", "|", " ", "?">>,
     cells |-> 3],
    [text |-> <<"|", " ", "G", "e", "o", "g", "r", "a", "p", "h", "y", " ",
              "|", " ", "Y", "e", "s", " ", "|">>,
     cells |-> 2],
    [text |-> <<"I", "n", "d", "u", "s", "t", "r", "y", ":", " ", "Y", "e",
              "s">>,
     cells |-> 1] >>

\* the rows taken from the pool, at most MaxRows of them, in the pool's order
ShortRowSeqs ==
    {rs \in UNION {[1..n -> 1..Len(ShortRowPool)] : n \in 0..MaxRows} :
        \A i \in 1..(Len(rs) - 1) : rs[i] < rs[i + 1]}

\* the texts of the rows chosen, and of those among them with four cells
RowTexts(rs) == [i \in 1..Len(rs) |-> ShortRowPool[rs[i]].text]
FullRowTexts(rs) ==
    RowTexts(SelectSeq(rs, LAMBDA r : ShortRowPool[r].cells >= 4))

\* the first two lines of a reply: the header and the separator, or, when
\* the language model leaves them out, two data rows
FirstTwoLines ==
    {<<TableHeader, TableSeparator>>,
     <<ShortRowPool[1].text, ShortRowPool[1].text>>}

\* the replies explored: beside each text, the table a reader takes it for,
\* that is the header, the separator and the rows of four cells
ShortTables ==
    {[text |-> Join(first \o RowTexts(rs), <<"\n">>),
      table |-> Join(<<TableHeader, TableSeparator>> \o FullRowTexts(rs), <<"\n">>)] :
        first \in FirstTwoLines, rs \in ShortRowSeqs}

\* the buy boxes that weigh Geography, and Industry or not
GeographyBoxes ==
    {box \in StoredProfiles :
        box.geography.weight > 0 /\ box.minSde.weight = 0 /\ box.maxSde.weight = 0}


(***************************************************************************)
(* Scorecards in which every criterion fits                                *)
(***************************************************************************)

\* the rows the prompt asks for: the names of criteriaNameToKeyMap whose key
\* carries a weight, "Financials (SDE)" standing for minSde and maxSde
RecognizedRows ==
    SelectSeq(criteriaNameToKeyMap,
              LAMBDA e : e.key # Null /\ HasNumberWeight(defaultBuyBoxCriteria[e.key]))

\* "| ${name} (Weight: ${weight}) | Meets | Yes | ok |", the weight as the
\* prompt prints it
AllYesRow(name, weight) ==
    <<"|", " ">> \o name \o <<" ", "(", "W", "e", "i", "g", "h", "t", ":", " ">> \o <<Digits[weight + 1]>>
    \o <<")", " ", "|", " ", "M", "e", "e", "t", "s", " ", "|", " ", "Y", "e", "s", " ", "|", " ", "o", "k", " ", "|">>

\* the table with one row for each recognized criterion, every fit "Yes"
AllYesScorecard(box) ==
    Join(<<TableHeader, TableSeparator>> \o
         [i \in 1..Len(RecognizedRows) |->
             AllYesRow(RecognizedRows[i].name, box[RecognizedRows[i].key].weight)],
         <<"\n">>)

\* buy boxes by their weights: Geography, min SDE and max SDE each from
\* 0 to MaxWeight, and one weight, 0 or 1, for all the other criteria
AllYesBoxes ==
    {[k \in DOMAIN defaultBuyBoxCriteria |->
         IF k \in UnweightedKeys THEN defaultBuyBoxCriteria[k]
         ELSE IF k = "geography" THEN Weighted(g)
         ELSE IF k = "minSde" THEN Weighted(a)
         ELSE IF k = "maxSde" THEN Weighted(b)
         ELSE Weighted(o)] :
        g \in 0..MaxWeight, a \in 0..MaxWeight, b \in 0..MaxWeight, o \in {0, 1}}

AllYesOf == [box \in AllYesBoxes |-> AllYesScorecard(box)]
(***************************************************************************)
(* Numbers of the financial calculators: exact rationals [n, d] in lowest  *)
(* terms with d > 0; NaN is the record with d = 0.  A value is the exact    *)
(* result of the arithmetic the code writes; the rounding of binary64 is   *)
(* not applied here, so a value equals the program's wherever the amounts  *)
(* are whole or dyadic.                                                    *)
(***************************************************************************)

NaN == [n |-> 0, d |-> 0]
IsNaN(x) == x.d = 0

Abs(i) == IF i < 0 THEN -i ELSE i

RECURSIVE GCD(_, _)
GCD(a, b) == IF b = 0 THEN a ELSE GCD(b, a % b)

\* the rational p / q in lowest terms, q # 0
Rat(p, q) ==
    LET g == GCD(Abs(p), Abs(q))
        s == IF q < 0 THEN -1 ELSE 1
    IN [n |-> s * (p \div g), d |-> s * (q \div g)]

RInt(i) == [n |-> i, d |-> 1]
Zero == RInt(0)

\* sums and differences over the least common denominator
RAdd(x, y) ==
    IF IsNaN(x) \/ IsNaN(y) THEN NaN
    ELSE LET g == GCD(x.d, y.d)
         IN Rat(x.n * (y.d \div g) + y.n * (x.d \div g), x.d * (y.d \div g))
RSub(x, y) ==
    IF IsNaN(x) \/ IsNaN(y) THEN NaN
    ELSE LET g == GCD(x.d, y.d)
         IN Rat(x.n * (y.d \div g) - y.n * (x.d \div g), x.d * (y.d \div g))
RMul(x, y) ==
    IF IsNaN(x) \/ IsNaN(y) THEN NaN
    ELSE LET a == Rat(x.n, y.d)
             b == Rat(y.n, x.d)
         IN [n |-> a.n * b.n, d |-> a.d * b.d]
\* x / y; the callers divide only by a non-zero y
RDiv(x, y) ==
    IF IsNaN(x) \/ IsNaN(y) \/ y.n = 0 THEN NaN
    ELSE RMul(x, Rat(y.d, y.n))
RLess(x, y) ==
    /\ ~IsNaN(x)
    /\ ~IsNaN(y)
    /\ LET g == GCD(x.d, y.d) IN x.n * (y.d \div g) < y.n * (x.d \div g)
RGreater(x, y) == RLess(y, x)

\* x || dflt : NaN and 0 are falsy
OrElse(x, dflt) == IF IsNaN(x) \/ x.n = 0 THEN dflt ELSE x

\* the longest prefix of s made of digits
RECURSIVE DigitPrefix(_)
DigitPrefix(s) ==
    IF s = <<>> \/ ~IsDigit(s[1]) THEN <<>>
    ELSE <<s[1]>> \o DigitPrefix(Tail(s))

\* the value of a sequence of digits
RECURSIVE DigitsValue(_)
DigitsValue(ds) ==
    IF ds = <<>> THEN 0
    ELSE 10 * DigitsValue(SubSeq(ds, 1, Len(ds) - 1)) + DigitValue(ds[Len(ds)])

\* the decimal literal <int>.<frac> as a rational
Decimal(int, frac) == Rat(DigitsValue(int) * 10^Len(frac) + DigitsValue(frac), 10^Len(frac))

\* drop the leading white space
RECURSIVE TrimStart(_)
TrimStart(s) == IF s # <<>> /\ IsWhiteSpace(s[1]) THEN TrimStart(Tail(s)) ELSE s

\* parseFloat: the longest prefix, after white space, that is a decimal
\* literal (sign, digits, optional fraction); NaN if there is none.
\* Exponents and "Infinity" are outside the alphabet explored.
parseFloat(s) ==
    LET t == TrimStart(s)
        neg == t # <<>> /\ t[1] = "-"
        u == IF t # <<>> /\ t[1] \in {"-", "+"} THEN Tail(t) ELSE t
        int == DigitPrefix(u)
        rest == SubSeq(u, Len(int) + 1, Len(u))
        frac == IF rest # <<>> /\ rest[1] = "." THEN DigitPrefix(Tail(rest)) ELSE <<>>
    IN IF int = <<>> /\ frac = <<>> THEN NaN
       ELSE LET v == Decimal(int, frac)
            IN IF neg THEN [n |-> -v.n, d |-> v.d] ELSE v

\* parseInt(s, 10): the longest prefix, after white space, that is a signed
\* run of digits; NaN if there is none
parseInt(s) ==
    LET t == TrimStart(s)
        neg == t # <<>> /\ t[1] = "-"
        u == IF t # <<>> /\ t[1] \in {"-", "+"} THEN Tail(t) ELSE t
        int == DigitPrefix(u)
    IN IF int = <<>> THEN NaN
       ELSE RInt(IF neg THEN -DigitsValue(int) ELSE DigitsValue(int))

\* Number(s) for a string of digits and dots: the whole string must be a
\* decimal literal; the empty string is 0
ToNumber(s) ==
    LET t == Trim(s)
        int == DigitPrefix(t)
        rest == SubSeq(t, Len(int) + 1, Len(t))
        frac == IF rest # <<>> /\ rest[1] = "." THEN DigitPrefix(Tail(rest)) ELSE <<>>
        used == Len(int) + (IF rest # <<>> /\ rest[1] = "." THEN 1 + Len(frac) ELSE 0)
    IN IF t = <<>> THEN Zero
       ELSE IF used # Len(t) \/ (int = <<>> /\ frac = <<>>) THEN NaN
       ELSE Decimal(int, frac)

(***************************************************************************)
(* The deal-structure calculator (ValuationCalculator)                     *)
(***************************************************************************)

\* value.replace(/[^0-9.]/g, '') keeps these
DigitsAndDot == {"0", "1", "2", "3", "4", "5", "6", "7", "8", "9", "."}

parseCurrency(value) == OrElse(ToNumber(KeepChars(value, DigitsAndDot)), Zero)

\* defaultInputs, without the fields of the standby and forgivable notes that
\* no calculation reads (rates, terms and the forgiveness condition)
defaultInputs ==
    [sde |-> <<"5", "0", "0", ",", "0", "0", "0">>,
     askingMultiple |-> <<"3", ".", "0">>,
     ownerSalary |-> <<"1", "2", "0", ",", "0", "0", "0">>,
     closingCosts |-> <<"4", "0", ",", "0", "0", "0">>,
     liquidityMonths |-> <<"3">>,
     loanAmount |-> <<"1", ",", "0", "5", "0", ",", "0", "0", "0">>,
     sbaTerm |-> <<"1", "0">>,
     sbaRate |-> <<"9", ".", "5">>,
     amortizingSellerNoteAmount |-> <<"1", "5", "0", ",", "0", "0", "0">>,
     standbySellerNoteAmount |-> <<"1", "5", "0", ",", "0", "0", "0">>,
     forgivableSellerNoteAmount |-> <<"1", "5", "0", ",", "0", "0", "0">>,
     amortizingNoteTerm |-> <<"5">>,
     amortizingNoteRate |-> <<"6", ".", "0">>,
     amortizingNoteType |-> "interestOnly",
     stressTestPercent |-> <<"1", "0">>]

\* const inputs = propInputs ?? defaultInputs
CurrentInputs(propInputs) == IF propInputs = NullInputs THEN defaultInputs ELSE propInputs

DebtFields ==
    {"loanAmount", "amortizingSellerNoteAmount", "standbySellerNoteAmount",
     "forgivableSellerNoteAmount"}

errorMsg == "Total debt cannot exceed EV."

\* faulty variant: debt equal to the enterprise value is flagged as well
validationErrors_AtOrAbove(totalDebt, enterpriseValue) ==
    IF ~RLess(totalDebt, enterpriseValue)
    THEN [f \in DebtFields |-> errorMsg]
    ELSE <<>>

\* let validationErrors = {}; if (totalDebt > enterpriseValue) { ... }
validationErrors(totalDebt, enterpriseValue) ==
    IF RGreater(totalDebt, enterpriseValue)
    THEN [f \in DebtFields |-> errorMsg]
    ELSE <<>>

\* faulty variant: the equity is held at zero once debt exceeds the value
buyerEquity_Clamped(enterpriseValue, numLoanAmount, totalSellerFinancing) ==
    LET e == RSub(RSub(enterpriseValue, numLoanAmount), totalSellerFinancing)
    IN IF RLess(e, Zero) THEN Zero ELSE e

buyerEquity(enterpriseValue, numLoanAmount, totalSellerFinancing) ==
    RSub(RSub(enterpriseValue, numLoanAmount), totalSellerFinancing)

\* the useMemo: enterprise value, equity and validation
calculations(inputs) ==
    LET numSDE == parseCurrency(inputs.sde)
        numAskingMultiple == OrElse(parseFloat(inputs.askingMultiple), Zero)
        numLoanAmount == parseCurrency(inputs.loanAmount)
        numAmortizingSellerNote == parseCurrency(inputs.amortizingSellerNoteAmount)
        numStandbySellerNote == parseCurrency(inputs.standbySellerNoteAmount)
        numForgivableSellerNote == parseCurrency(inputs.forgivableSellerNoteAmount)
        totalSellerFinancing ==
            RAdd(RAdd(numAmortizingSellerNote, numStandbySellerNote),
                 numForgivableSellerNote)
        enterpriseValue == RMul(numSDE, numAskingMultiple)
        totalDebt == RAdd(numLoanAmount, totalSellerFinancing)
    IN [enterpriseValue |-> enterpriseValue,
        buyerEquity |-> buyerEquity(enterpriseValue, numLoanAmount, totalSellerFinancing),
        totalSellerFinancing |-> totalSellerFinancing,
        validationErrors |-> validationErrors(totalDebt, enterpriseValue)]

\* what the user may type into each amount field
FieldEdits ==
    [sde |-> {<<"5", "0", "0", ",", "0", "0", "0">>,
         <<"0">>,
         <<>>},
     askingMultiple |-> {<<"3", ".", "0">>,
         <<"2", ".", "5">>,
         <<"a", "b", "c">>},
     loanAmount |-> {<<"1", ",", "0", "5", "0", ",", "0", "0", "0">>,
         <<"2", ",", "0", "0", "0", ",", "0", "0", "0">>,
         <<"$", "9", "0", "0", ",", "0", "0", "0">>},
     amortizingSellerNoteAmount |-> {<<"1", "5", "0", ",", "0", "0", "0">>,
         <<"0">>},
     standbySellerNoteAmount |-> {<<"1", "5", "0", ",", "0", "0", "0">>,
         <<"0">>,
         <<"5", "0", ",", "0", "0", "0", ".", "5", "0">>},
     forgivableSellerNoteAmount |-> {<<"1", "5", "0", ",", "0", "0", "0">>,
         <<"0">>}]

\* the effect that follows every render: setErrors(calculations.validationErrors)
ErrorsEffect(propInputs) == calculations(CurrentInputs(propInputs)).validationErrors

handleInputChange(name, value) ==
    /\ valuationInputs' = [CurrentInputs(valuationInputs) EXCEPT ![name] = value]
    /\ valuationInputs' # valuationInputs
    /\ errors' = ErrorsEffect(valuationInputs')
    /\ UNCHANGED <<isAdvancedView, isStressed>>
    /\ UNCHANGED <<fitVars, finVars, srcVars>>
    /\ AppUnchanged

setIsAdvancedView(b) ==
    /\ isAdvancedView # b
    /\ isAdvancedView' = b
    /\ errors' = ErrorsEffect(valuationInputs)
    /\ UNCHANGED <<valuationInputs, isStressed>>
    /\ UNCHANGED <<fitVars, finVars, srcVars>>
    /\ AppUnchanged

setIsStressed(b) ==
    /\ isStressed # b
    /\ isStressed' = b
    /\ errors' = ErrorsEffect(valuationInputs)
    /\ UNCHANGED <<valuationInputs, isAdvancedView>>
    /\ UNCHANGED <<fitVars, finVars, srcVars>>
    /\ AppUnchanged

\* Reset Form
handleClearValuationData ==
    /\ valuationInputs # NullInputs
    /\ valuationInputs' = NullInputs
    /\ errors' = ErrorsEffect(valuationInputs')
    /\ UNCHANGED <<isAdvancedView, isStressed>>
    /\ UNCHANGED <<fitVars, finVars, srcVars>>
    /\ AppUnchanged

ValNext ==
    \/ \E name \in DOMAIN FieldEdits : \E value \in FieldEdits[name] :
          handleInputChange(name, value)
    \/ \E b \in BOOLEAN : setIsAdvancedView(b)
    \/ \E b \in BOOLEAN : setIsStressed(b)
    \/ handleClearValuationData

(***************************************************************************)
(* The deal-structure calculator: debt service and coverage                *)
(* (the second half of the calculations useMemo)                           *)
(***************************************************************************)

\* x to the power n, n a natural number
RECURSIVE RPow(_, _)
RPow(x, n) == IF n = 0 THEN RInt(1) ELSE RMul(x, RPow(x, n - 1))

\* (P * r) / (1 - Math.pow(1 + r, -n)) when n > 0 and r > 0; P / n when only
\* n > 0; else 0.  numPayments is a whole number (a parseInt times 12).
monthlyPayment(principal, monthlyRate, numPayments) ==
    IF RGreater(numPayments, Zero) /\ RGreater(monthlyRate, Zero)
    THEN RDiv(RMul(principal, monthlyRate),
              RSub(RInt(1),
                   RDiv(RInt(1), RPow(RAdd(RInt(1), monthlyRate), numPayments.n))))
    ELSE IF RGreater(numPayments, Zero) THEN RDiv(principal, numPayments)
    ELSE Zero

\* faulty variant: the 13% rule is applied in both modes
sbaDebtService_AlwaysRule(numLoanAmount, monthlySbaPayment, advanced) ==
    RMul(numLoanAmount, Rat(13, 100))

\* faulty variant: the amortizing payment is kept in simple mode
sbaDebtService_Amortized(numLoanAmount, monthlySbaPayment, advanced) ==
    RMul(monthlySbaPayment, RInt(12))

\* sbaDebtService = monthlySbaPayment * 12, overwritten by the 13% rule in
\* simple mode
sbaDebtService(numLoanAmount, monthlySbaPayment, advanced) ==
    IF advanced THEN RMul(monthlySbaPayment, RInt(12))
    ELSE RMul(numLoanAmount, Rat(13, 100))

\* the seller-note debt service: interest only or amortizing in advanced
\* mode, the 5% rule in simple mode
sellerNoteDebtService(inputs, numAmortizingSellerNote, advanced) ==
    LET numAmortizingNoteTerm == OrElse(parseInt(inputs.amortizingNoteTerm), Zero)
        numAmortizingNoteRate == OrElse(parseFloat(inputs.amortizingNoteRate), Zero)
    IN IF advanced
       THEN IF inputs.amortizingNoteType = "interestOnly"
            THEN RMul(numAmortizingSellerNote, RDiv(numAmortizingNoteRate, RInt(100)))
            ELSE RMul(monthlyPayment(numAmortizingSellerNote,
                                     RDiv(RDiv(numAmortizingNoteRate, RInt(100)), RInt(12)),
                                     RMul(numAmortizingNoteTerm, RInt(12))),
                      RInt(12))
       ELSE RMul(numAmortizingSellerNote, Rat(5, 100))

\* faulty variant: no test of the debt service before the division
dscr_Unguarded(cashAvailableForDebt, totalDebtService) ==
    RDiv(cashAvailableForDebt, totalDebtService)

\* const dscr = totalDebtService > 0 ? cashAvailableForDebt / totalDebtService : 0
dscr(cashAvailableForDebt, totalDebtService) ==
    IF RGreater(totalDebtService, Zero)
    THEN RDiv(cashAvailableForDebt, totalDebtService)
    ELSE Zero

\* const dscrThreshold = isAdvancedView ? 1.5 : 1.25
dscrThreshold(advanced) == IF advanced THEN Rat(3, 2) ELSE Rat(5, 4)

\* faulty variant: a coverage equal to the threshold is flagged as well
isDscrLow_AtOrBelow(dscrValue, advanced) == ~RGreater(dscrValue, dscrThreshold(advanced))

\* const isDscrLow = dscr < dscrThreshold
isDscrLow(dscrValue, advanced) == RLess(dscrValue, dscrThreshold(advanced))

\* the debt-service half of the useMemo
debtCalculations(inputs, advanced, stressed) ==
    LET numSDE == parseCurrency(inputs.sde)
        numLoanAmount == parseCurrency(inputs.loanAmount)
        numAmortizingSellerNote == parseCurrency(inputs.amortizingSellerNoteAmount)
        numOwnerSalary == parseCurrency(inputs.ownerSalary)
        numClosingCosts == parseCurrency(inputs.closingCosts)
        numLiquidityMonths == OrElse(parseInt(inputs.liquidityMonths), Zero)
        numSbaTerm == OrElse(parseInt(inputs.sbaTerm), Zero)
        numSbaRate == OrElse(parseFloat(inputs.sbaRate), Zero)
        numStressTestPercent == OrElse(parseFloat(inputs.stressTestPercent), Zero)
        monthlySbaRate == RDiv(RDiv(numSbaRate, RInt(100)), RInt(12))
        numSbaPayments == RMul(numSbaTerm, RInt(12))
        monthlySbaPayment == monthlyPayment(numLoanAmount, monthlySbaRate, numSbaPayments)
        sba == sbaDebtService(numLoanAmount, monthlySbaPayment, advanced)
        seller == sellerNoteDebtService(inputs, numAmortizingSellerNote, advanced)
        totalDebtService == RAdd(sba, seller)
        sdeForCalc ==
            IF stressed
            THEN RMul(numSDE, RSub(RInt(1), RDiv(numStressTestPercent, RInt(100))))
            ELSE numSDE
        cashAvailableForDebt == RSub(sdeForCalc, numOwnerSalary)
        coverage == dscr(cashAvailableForDebt, totalDebtService)
        liquidityTarget == RMul(RDiv(totalDebtService, RInt(12)), numLiquidityMonths)
    IN [sbaDebtService |-> sba,
        sellerNoteDebtService |-> seller,
        totalDebtService |-> totalDebtService,
        dscr |-> coverage,
        netCashFlowToOwner |-> RSub(cashAvailableForDebt, totalDebtService),
        liquidityTarget |-> liquidityTarget,
        totalCashToClose |->
            RAdd(RAdd(calculations(inputs).buyerEquity, numClosingCosts),
                 IF advanced THEN liquidityTarget ELSE Zero),
        isDscrLow |-> isDscrLow(coverage, advanced)]
(***************************************************************************)
(* The financial analysis hub (FinancialAnalysisHub) and the loader of     *)
(* the projection modeler (FinancialProjectionModeler)                     *)
(***************************************************************************)

\* most historical periods and add-back lines the hub is taken to
MaxPeriods == 3
MaxAddBacks == 2
\* latest year a period added by the hub may be named
MaxYear == 2026

\* new Date().getFullYear()
CurrentYear == 2026

\* Number.prototype.toString for a natural number, and for an integer
RECURSIVE NatToString(_)
NatToString(n) ==
    IF n < 10 THEN <<Digits[n + 1]>>
    ELSE Append(NatToString(n \div 10), Digits[(n % 10) + 1])

IntToString(i) == IF i < 0 THEN <<"-">> \o NatToString(-i) ELSE NatToString(i)

\* const parseNum = (val) => parseFloat(String(val).replace(/,/g, '')) || 0
parseNum(val) == OrElse(parseFloat(RemoveChars(val, {","})), Zero)

\* createNewPeriod(name), with the id the UUID generator hands out
createNewPeriod(id, name) ==
    [id |-> id, periodName |-> name,
     revenue |-> <<>>, cogs |-> <<>>, operatingExpenses |-> <<>>,
     depreciation |-> <<>>, amortization |-> <<>>, interestExpense |-> <<>>,
     taxes |-> <<>>, cash |-> <<>>, accountsReceivable |-> <<>>,
     inventory |-> <<>>, otherCurrentAssets |-> <<>>, longTermAssets |-> <<>>,
     accountsPayable |-> <<>>, shortTermDebt |-> <<>>,
     otherCurrentLiabilities |-> <<>>, longTermDebt |-> <<>>,
     shareholderEquity |-> <<>>]

\* a period whose amounts are written as whole numbers
Period(id, name, rev, cogs, opex, depr, amort, int, tax, cash, ar, inv, oca, lta, ap, std, ocl, ltd, eq) ==
    [id |-> id, periodName |-> name,
     revenue |-> NatToString(rev), cogs |-> NatToString(cogs),
     operatingExpenses |-> NatToString(opex),
     depreciation |-> NatToString(depr), amortization |-> NatToString(amort),
     interestExpense |-> NatToString(int), taxes |-> NatToString(tax),
     cash |-> NatToString(cash), accountsReceivable |-> NatToString(ar),
     inventory |-> NatToString(inv), otherCurrentAssets |-> NatToString(oca),
     longTermAssets |-> NatToString(lta), accountsPayable |-> NatToString(ap),
     shortTermDebt |-> NatToString(std),
     otherCurrentLiabilities |-> NatToString(ocl),
     longTermDebt |-> NatToString(ltd), shareholderEquity |-> NatToString(eq)]

YtdActualsName == <<"Y", "T", "D", " ", "A", "c", "t", "u", "a", "l", "s">>

defaultFinancialData ==
    [periods |-> <<
        Period("p1", NatToString(CurrentYear - 1), 2500000, 1500000, 600000,
               55000, 10000, 35000, 75000, 200000, 300000, 120000, 25000,
               450000, 140000, 40000, 35000, 250000, 630000),
        Period("p2", NatToString(CurrentYear - 2), 2200000, 1320000, 550000,
               50000, 10000, 40000, 60000, 150000, 250000, 100000, 20000,
               400000, 120000, 50000, 30000, 300000, 420000) >>,
     addBacks |-> << [id |-> "b1", amount |-> NatToString(15000)],
                     [id |-> "b2", amount |-> NatToString(25000)] >>,
     ytdMonths |-> <<"9">>,
     ytdActuals |->
        Period("ytd", YtdActualsName, 2100000, 1260000, 525000,
               45000, 7500, 25000, 60000, 250000, 350000, 140000, 30000,
               480000, 160000, 30000, 40000, 220000, 800000),
     ownerCompAddBack |-> NatToString(120000)]

\* const data = propData ?? defaultFinancialData
CurrentData(propData) == IF propData = NullData THEN defaultFinancialData ELSE propData

\* data.addBacks.reduce((sum, b) => sum + parseNum(b.amount), 0)
RECURSIVE generalAddBacks(_)
generalAddBacks(addBacks) ==
    IF addBacks = <<>> THEN Zero
    ELSE RAdd(generalAddBacks(SubSeq(addBacks, 1, Len(addBacks) - 1)),
              parseNum(addBacks[Len(addBacks)].amount))

\* const ytdMonths = parseInt(data.ytdMonths) || 1
hubYtdMonths(data) == OrElse(parseInt(data.ytdMonths), RInt(1))

\* faulty variant: the factor is months / 12
annualizationFactor_Inverted(ytdMonths) ==
    IF RGreater(ytdMonths, Zero) /\ RLess(ytdMonths, RInt(12))
    THEN RDiv(ytdMonths, RInt(12))
    ELSE RInt(1)

\* ytdMonths > 0 && ytdMonths < 12 ? 12 / ytdMonths : 1
annualizationFactor(ytdMonths) ==
    IF RGreater(ytdMonths, Zero) /\ RLess(ytdMonths, RInt(12))
    THEN RDiv(RInt(12), ytdMonths)
    ELSE RInt(1)

\* faulty variant: the owner's compensation stays inside normalized EBITDA
normalizedEbitda_WithOwnerComp(ebitda, totalAddBacks, ownerComp) ==
    RAdd(ebitda, totalAddBacks)

\* ebitda + totalAddBacks - ownerComp
normalizedEbitda(ebitda, totalAddBacks, ownerComp) ==
    RSub(RAdd(ebitda, totalAddBacks), ownerComp)

NoPeriod == [null |-> TRUE]

\* calculateMetrics(p, prevPeriod, isAnnualized); totalAddBacks, ownerComp
\* and factor are the values of the enclosing useMemo
calculateMetrics(p, prevPeriod, isAnnualized, totalAddBacks, ownerComp, factor) ==
    LET Ann(x) == IF isAnnualized THEN RMul(x, factor) ELSE x
        revenue == Ann(parseNum(p.revenue))
        cogs == Ann(parseNum(p.cogs))
        opEx == Ann(parseNum(p.operatingExpenses))
        depr == parseNum(p.depreciation)
        amort == parseNum(p.amortization)
        interest == parseNum(p.interestExpense)
        taxes == parseNum(p.taxes)
        cash == parseNum(p.cash)
        ar == parseNum(p.accountsReceivable)
        inventory == parseNum(p.inventory)
        otherCurrentAssets == parseNum(p.otherCurrentAssets)
        longTermAssets == parseNum(p.longTermAssets)
        ap == parseNum(p.accountsPayable)
        shortTermDebt == parseNum(p.shortTermDebt)
        otherCurrentLiabilities == parseNum(p.otherCurrentLiabilities)
        grossProfit == RSub(revenue, cogs)
        ebitda == RSub(grossProfit, opEx)
        ebit == RSub(RSub(ebitda, depr), amort)
        netIncome == RSub(RSub(ebit, interest), taxes)
        normEbitda == normalizedEbitda(ebitda, totalAddBacks, ownerComp)
        normalizedSde == RAdd(normEbitda, ownerComp)
        totalCurrentAssets == RAdd(RAdd(RAdd(cash, ar), inventory), otherCurrentAssets)
        totalAssets == RAdd(totalCurrentAssets, longTermAssets)
        totalCurrentLiabilities == RAdd(RAdd(ap, shortTermDebt), otherCurrentLiabilities)
        netWorkingCapital ==
            RSub(RAdd(RAdd(ar, inventory), otherCurrentAssets),
                 RAdd(ap, otherCurrentLiabilities))
        prevRevenue == IF prevPeriod # NoPeriod THEN parseNum(prevPeriod.revenue) ELSE Zero
        revenueGrowth ==
            IF prevRevenue.n # 0 THEN RDiv(RSub(revenue, prevRevenue), prevRevenue) ELSE Zero
        prevAR == IF prevPeriod # NoPeriod THEN parseNum(prevPeriod.accountsReceivable) ELSE ar
        avgAR == RDiv(RAdd(ar, prevAR), RInt(2))
        prevAP == IF prevPeriod # NoPeriod THEN parseNum(prevPeriod.accountsPayable) ELSE ap
        avgAP == RDiv(RAdd(ap, prevAP), RInt(2))
    IN [id |-> p.id, periodName |-> p.periodName, revenue |-> revenue,
        grossProfit |-> grossProfit, ebitda |-> ebitda, netIncome |-> netIncome,
        normalizedEbitda |-> normEbitda, normalizedSde |-> normalizedSde,
        netWorkingCapital |-> netWorkingCapital, totalAssets |-> totalAssets,
        revenueGrowth |-> revenueGrowth,
        grossMargin |-> IF revenue.n # 0 THEN RDiv(grossProfit, revenue) ELSE Zero,
        ebitdaMargin |-> IF revenue.n # 0 THEN RDiv(ebitda, revenue) ELSE Zero,
        netMargin |-> IF revenue.n # 0 THEN RDiv(netIncome, revenue) ELSE Zero,
        currentRatio |-> IF totalCurrentLiabilities.n # 0
                         THEN RDiv(totalCurrentAssets, totalCurrentLiabilities)
                         ELSE Zero,
        quickRatio |-> IF totalCurrentLiabilities.n # 0
                       THEN RDiv(RAdd(cash, ar), totalCurrentLiabilities)
                       ELSE Zero,
        dso |-> IF revenue.n # 0 THEN RMul(RDiv(avgAR, revenue), RInt(365)) ELSE Zero,
        dpo |-> IF cogs.n # 0 THEN RMul(RDiv(avgAP, cogs), RInt(365)) ELSE Zero]

\* the key of a period in the sorts: parseInt(periodName); the period names
\* explored all start with a year
YearOf(p) == parseInt(p.periodName).n

\* Array.prototype.sort((a, b) => parseInt(a.periodName) - parseInt(b.periodName)):
\* ascending and stable
RECURSIVE SortAscending(_)
SortAscending(ps) ==
    IF Len(ps) <= 1 THEN ps
    ELSE LET last == ps[Len(ps)]
             front == SortAscending(SubSeq(ps, 1, Len(ps) - 1))
             k == Cardinality({i \in 1..Len(front) : YearOf(front[i]) <= YearOf(last)})
         IN SubSeq(front, 1, k) \o <<last>> \o SubSeq(front, k + 1, Len(front))

\* the same with (b, a): descending and stable
RECURSIVE SortDescending(_)
SortDescending(ps) ==
    IF Len(ps) <= 1 THEN ps
    ELSE LET last == ps[Len(ps)]
             front == SortDescending(SubSeq(ps, 1, Len(ps) - 1))
             k == Cardinality({i \in 1..Len(front) : YearOf(front[i]) >= YearOf(last)})
         IN SubSeq(front, 1, k) \o <<last>> \o SubSeq(front, k + 1, Len(front))

AnnualizedSuffix == <<" ", "(", "A", "n", "n", ".", ")">>

\* the useMemo of the hub
calculationResults(data) ==
    LET general == generalAddBacks(data.addBacks)
        ownerComp == parseNum(data.ownerCompAddBack)
        totalAddBacks == RAdd(general, ownerComp)
        factor == annualizationFactor(hubYtdMonths(data))
        ytdAnnualizedPeriod ==
            [data.ytdActuals EXCEPT
                !.periodName = NatToString(CurrentYear) \o AnnualizedSuffix,
                !.id = "ytd-annualized"]
        allPeriodsForCalc == SortAscending(Append(data.periods, ytdAnnualizedPeriod))
        metrics ==
            [index \in 1..Len(allPeriodsForCalc) |->
                calculateMetrics(allPeriodsForCalc[index],
                                 IF index > 1 THEN allPeriodsForCalc[index - 1] ELSE NoPeriod,
                                 allPeriodsForCalc[index].id = "ytd-annualized",
                                 totalAddBacks, ownerComp, factor)]
        nwcSum[i \in 0..Len(metrics)] ==
            IF i = 0 THEN Zero ELSE RAdd(nwcSum[i - 1], metrics[i].netWorkingCapital)
    IN [calculations |-> metrics,
        averageNWC |-> RDiv(nwcSum[Len(metrics)], RInt(Len(metrics))),
        ytdActualsCalculations |->
            calculateMetrics(data.ytdActuals, NoPeriod, FALSE,
                             totalAddBacks, ownerComp, factor)]

(* ---- the hub's handlers; each ends in setData({...data, [field]: value}) ---- *)

PeriodIds == {"p1", "p2", "p3", "p4", "p5", "p6", "p7", "p8"}
AddBackIds == {"b1", "b2", "b3", "b4", "b5"}

\* crypto.randomUUID(): an id not in use
FreshId(pool, used) == CHOOSE id \in pool \ used : TRUE

IdsOf(seq) == {seq[i].id : i \in 1..Len(seq)}

handleDataChange(field, value) ==
    /\ financialAnalysisData' =
           [CurrentData(financialAnalysisData) EXCEPT ![field] = value]
    /\ UNCHANGED <<projectionData, scanData>>
    /\ UNCHANGED <<fitVars, valVars, srcVars>>
    /\ AppUnchanged

\* what the user may type as the month count
YtdMonthsEdits ==
    {<<>>, <<"0">>, <<"-", "3">>, <<"1">>, <<"6">>, <<"9">>, <<"1", "2">>, <<"1", "5">>}

handleYtdMonthsChange(value) ==
    /\ value # CurrentData(financialAnalysisData).ytdMonths
    /\ handleDataChange("ytdMonths", value)

OwnerCompEdits == {<<"9", "0", ",", "0", "0", "0">>}

\* onChange of the owner-compensation input: the commas are removed first
handleOwnerCompChange(value) ==
    /\ RemoveChars(value, {","}) # CurrentData(financialAnalysisData).ownerCompAddBack
    /\ handleDataChange("ownerCompAddBack", RemoveChars(value, {","}))

\* the (field, value) pairs typed into a period's cells
PeriodEdits ==
    {<<"periodName", <<"2", "0", "3", "0">>>>,
     <<"revenue", <<"1", ",", "8", "0", "0", ",", "0", "0", "0">>>>,
     <<"revenue", <<"a", "b", "c">>>>}

handlePeriodChange(periodId, field, value) ==
    LET data == CurrentData(financialAnalysisData)
        isYtd == periodId = data.ytdActuals.id
        cleanedValue == RemoveChars(value, {","})
    IN /\ isYtd \/ periodId \in IdsOf(data.periods)
       /\ cleanedValue = <<>> \/ ~IsNaN(parseFloat(cleanedValue))
       /\ IF isYtd
          THEN handleDataChange("ytdActuals",
                                [data.ytdActuals EXCEPT ![field] = cleanedValue])
          ELSE handleDataChange("periods",
                   [i \in 1..Len(data.periods) |->
                       IF data.periods[i].id = periodId
                       THEN [data.periods[i] EXCEPT ![field] = cleanedValue]
                       ELSE data.periods[i]])
       /\ financialAnalysisData' # financialAnalysisData

AddBackEdits == {<<"1", ",", "0", "0", "0">>}

handleAddBackChange(backId, value) ==
    LET data == CurrentData(financialAnalysisData)
        processedValue == RemoveChars(value, {","})
    IN /\ backId \in IdsOf(data.addBacks)
       /\ handleDataChange("addBacks",
              [i \in 1..Len(data.addBacks) |->
                  IF data.addBacks[i].id = backId
                  THEN [data.addBacks[i] EXCEPT !.amount = processedValue]
                  ELSE data.addBacks[i]])
       /\ financialAnalysisData' # financialAnalysisData

\* data.periods.reduce((max, p) => Math.max(max, parseInt(p.periodName) || 0), 0)
RECURSIVE latestYear(_)
latestYear(periods) ==
    IF periods = <<>> THEN 0
    ELSE LET rest == latestYear(Tail(periods))
             y == OrElse(parseInt(periods[1].periodName), Zero).n
         IN IF y > rest THEN y ELSE rest

handleAddPeriod ==
    LET data == CurrentData(financialAnalysisData)
        latest == latestYear(data.periods)
        newPeriod ==
            createNewPeriod(FreshId(PeriodIds, IdsOf(data.periods)),
                            NatToString(IF latest > 0 THEN latest + 1 ELSE CurrentYear))
    IN /\ Len(data.periods) < MaxPeriods
       /\ latest < MaxYear
       /\ handleDataChange("periods", <<newPeriod>> \o data.periods)

handleRemovePeriod(periodId) ==
    LET data == CurrentData(financialAnalysisData)
    IN /\ periodId \in IdsOf(data.periods)
       /\ Len(data.periods) > 1
       /\ handleDataChange("periods",
                           SelectSeq(data.periods, LAMBDA p : p.id # periodId))

handleAddBack ==
    LET data == CurrentData(financialAnalysisData)
        newBack == [id |-> FreshId(AddBackIds, IdsOf(data.addBacks)), amount |-> <<>>]
    IN /\ Len(data.addBacks) < MaxAddBacks
       /\ handleDataChange("addBacks", Append(data.addBacks, newBack))

handleRemoveAddBack(backId) ==
    LET data == CurrentData(financialAnalysisData)
    IN /\ backId \in IdsOf(data.addBacks)
       /\ handleDataChange("addBacks",
                           SelectSeq(data.addBacks, LAMBDA b : b.id # backId))

\* the Reset Example button is disabled while a scan is pending
handleClearFinancialAnalysisData ==
    /\ scanData = NoScan
    /\ financialAnalysisData # NullData
    /\ financialAnalysisData' = NullData
    /\ UNCHANGED <<projectionData, scanData>>
    /\ UNCHANGED <<fitVars, valVars, srcVars>>
    /\ AppUnchanged

(* ---- the projection modeler ---- *)

\* the modeler's parseNum: parseFloat(String(val).replace(/[^0-9.-]/g, '')) || 0
parseNum_Modeler(val) ==
    OrElse(parseFloat(KeepChars(val, DigitsAndDot \cup {"-"})), Zero)

\* String(Math.round(x)), on the exact value of x
RoundToString(x) == IntToString((2 * x.n + x.d) \div (2 * x.d))

\* x.toFixed(1), on the exact value of x: the nearest tenth, a tie going
\* away from zero
ToFixed1(x) ==
    LET tenths == (20 * Abs(x.n) + x.d) \div (2 * x.d)
        text == NatToString(tenths \div 10) \o <<".">> \o NatToString(tenths % 10)
    IN IF x.n < 0 /\ tenths > 0 THEN <<"-">> \o text ELSE text

defaultAssumptions ==
    [revenueGrowthY1_monthly |-> <<"1", ".", "0">>,
     revenueGrowthY2_annual |-> <<"1", "0", ".", "0">>,
     revenueGrowthY3_annual |-> <<"8", ".", "0">>,
     cogsPercentOfRevenue |-> <<"6", "0", ".", "0">>,
     opExCalculationMode |-> "percentOfRevenue",
     opExPercentOfRevenue |-> <<"2", "5", ".", "0">>,
     opExFixedAmount |-> <<"5", "0", "0", "0", "0", "0">>,
     opExGrowthAnnual |-> <<"3", ".", "0">>,
     annualCapex |-> <<"2", "5", "0", "0", "0">>,
     debtServiceAnnual |-> <<"1", "3", "6", "5", "0", "0">>,
     effectiveTaxRate |-> <<"2", "5", ".", "0">>,
     startingRevenue |-> <<"2", "5", "0", "0", "0", "0", "0">>,
     startingEbitda |-> <<"3", "7", "5", "0", "0", "0">>]

\* const ytdMonths = parseInt(financialAnalysisData.ytdMonths) || 12
modelerYtdMonths(data) == OrElse(parseInt(data.ytdMonths), RInt(12))

\* the factor the loader multiplies the base period by
modelerFactor(data) ==
    IF modelerYtdMonths(data) = RInt(12) THEN RInt(1)
    ELSE annualizationFactor(modelerYtdMonths(data))

\* the period the loader starts from
basePeriod(data) ==
    LET sorted == SortDescending(data.periods)
    IN IF modelerYtdMonths(data) = RInt(12) \/ sorted = <<>>
       THEN data.ytdActuals
       ELSE sorted[1]

handleLoadFromAnalysis ==
    LET assumptions ==
            IF projectionData = NullProjection THEN defaultAssumptions
            ELSE projectionData.assumptions
        data == financialAnalysisData
        base == basePeriod(data)
        revenue == RMul(parseNum_Modeler(base.revenue), modelerFactor(data))
        cogs == RMul(parseNum_Modeler(base.cogs), modelerFactor(data))
        opEx == RMul(parseNum_Modeler(base.operatingExpenses), modelerFactor(data))
        ebitda == RSub(RSub(revenue, cogs), opEx)
        fromHub ==
            [assumptions EXCEPT
                !.startingRevenue = RoundToString(revenue),
                !.startingEbitda = RoundToString(ebitda),
                !.cogsPercentOfRevenue =
                    IF RGreater(revenue, Zero)
                    THEN ToFixed1(RMul(RDiv(cogs, revenue), RInt(100)))
                    ELSE @,
                !.opExPercentOfRevenue =
                    IF RGreater(revenue, Zero)
                    THEN ToFixed1(RMul(RDiv(opEx, revenue), RInt(100)))
                    ELSE @]
        afterHub == IF data # NullData THEN fromHub ELSE assumptions
        inputs == valuationInputs
        debtService ==
            RAdd(RMul(parseNum_Modeler(inputs.loanAmount), Rat(13, 100)),
                 RMul(parseNum_Modeler(inputs.amortizingSellerNoteAmount), Rat(5, 100)))
        afterValuation ==
            IF inputs # NullInputs
            THEN [afterHub EXCEPT !.debtServiceAnnual = RoundToString(debtService)]
            ELSE afterHub
    IN /\ data # NullData \/ inputs # NullInputs
       /\ projectionData' = [assumptions |-> afterValuation]
       \* financialAnalysisData.periods.sort(...) sorts the stored array itself
       /\ financialAnalysisData' =
              IF data # NullData
              THEN [data EXCEPT !.periods = SortDescending(data.periods)]
              ELSE data
       /\ UNCHANGED scanData
       /\ UNCHANGED <<fitVars, valVars, srcVars>>
       /\ UNCHANGED <<user, savedProfiles, currentProfileName, past, future>>
       /\ PersistedWith(FALSE)

handleClearProjectionData ==
    /\ projectionData # NullProjection
    /\ projectionData' = NullProjection
    /\ UNCHANGED <<financialAnalysisData, scanData>>
    /\ UNCHANGED <<fitVars, valVars, srcVars>>
    /\ AppUnchanged

\* the hub alone: every handler that edits the data
FinNext ==
    \/ \E value \in {<<"1", "2">>, <<"9">>} : handleYtdMonthsChange(value)
    \/ \E value \in OwnerCompEdits : handleOwnerCompChange(value)
    \/ \E periodId \in {"p1", "ytd"} : \E edit \in PeriodEdits :
          /\ (edit[1] = "periodName") = (periodId # "ytd")
          /\ handlePeriodChange(periodId, edit[1], edit[2])
    \/ \E value \in AddBackEdits : handleAddBackChange("b1", value)
    \/ handleAddPeriod
    \/ \E periodId \in PeriodIds : handleRemovePeriod(periodId)
    \/ handleAddBack
    \/ \E backId \in AddBackIds : handleRemoveAddBack(backId)
    \/ handleClearFinancialAnalysisData

\* the month count and the year-to-date figures, in the hub and on their way
\* into the projection modeler
LoadNext ==
    \/ \E value \in YtdMonthsEdits : handleYtdMonthsChange(value)
    \/ \E periodId \in {"p1", "p2", "ytd"} : \E edit \in PeriodEdits :
          /\ (edit[1] = "periodName") = (periodId # "ytd")
          /\ handlePeriodChange(periodId, edit[1], edit[2])
    \/ handleClearFinancialAnalysisData
    \/ handleLoadFromAnalysis
    \/ handleClearProjectionData

(* ---- the hub: spreadsheet import and document scan ---- *)

\* metricAliasMap
metricAliasMap ==
    [revenue |->
        {<<"R", "e", "v", "e", "n", "u", "e">>,
         <<"S", "a", "l", "e", "s">>,
         <<"T", "o", "t", "a", "l", " ", "R", "e", "v", "e", "n", "u", "e">>,
         <<"T", "u", "r", "n", "o", "v", "e", "r">>},
     cogs |->
        {<<"C", "O", "G", "S">>,
         <<"C", "o", "s", "t", " ", "o", "f", " ", "G", "o", "o", "d", "s", " ", "S", "o", "l", "d">>,
         <<"C", "o", "s", "t", " ", "o", "f", " ", "S", "a", "l", "e", "s">>,
         <<"C", "o", "s", "t", " ", "o", "f", " ", "R", "e", "v", "e", "n", "u", "e">>},
     operatingExpenses |->
        {<<"O", "p", "E", "x">>,
         <<"O", "p", "e", "r", "a", "t", "i", "n", "g", " ", "E", "x", "p", "e", "n", "s", "e", "s">>,
         <<"S", "G", "&", "A">>,
         <<"S", "e", "l", "l", "i", "n", "g", ",", " ", "G", "e", "n", "e", "r", "a", "l", " ", "&", " ", "A", "d", "m", "i", "n", "i", "s", "t", "r", "a", "t", "i", "v", "e">>,
         <<"S", "G", "A">>},
     depreciation |->
        {<<"D", "e", "p", "r", "e", "c", "i", "a", "t", "i", "o", "n">>},
     amortization |->
        {<<"A", "m", "o", "r", "t", "i", "z", "a", "t", "i", "o", "n">>,
         <<"A", "m", "o", "r", "t", "i", "s", "a", "t", "i", "o", "n">>},
     interestExpense |->
        {<<"I", "n", "t", "e", "r", "e", "s", "t">>,
         <<"I", "n", "t", "e", "r", "e", "s", "t", " ", "E", "x", "p", "e", "n", "s", "e">>,
         <<"F", "i", "n", "a", "n", "c", "e", " ", "C", "o", "s", "t", "s">>},
     taxes |->
        {<<"T", "a", "x", "e", "s">>,
         <<"I", "n", "c", "o", "m", "e", " ", "T", "a", "x", " ", "E", "x", "p", "e", "n", "s", "e">>,
         <<"P", "r", "o", "v", "i", "s", "i", "o", "n", " ", "f", "o", "r", " ", "I", "n", "c", "o", "m", "e", " ", "T", "a", "x", "e", "s">>},
     cash |->
        {<<"C", "a", "s", "h">>,
         <<"C", "a", "s", "h", " ", "a", "n", "d", " ", "C", "a", "s", "h", " ", "E", "q", "u", "i", "v", "a", "l", "e", "n", "t", "s">>},
     accountsReceivable |->
        {<<"A", "/", "R">>,
         <<"A", "c", "c", "o", "u", "n", "t", "s", " ", "R", "e", "c", "e", "i", "v", "a", "b", "l", "e">>,
         <<"R", "e", "c", "e", "i", "v", "a", "b", "l", "e", "s">>,
         <<"T", "r", "a", "d", "e", " ", "D", "e", "b", "t", "o", "r", "s">>},
     inventory |->
        {<<"I", "n", "v", "e", "n", "t", "o", "r", "y">>,
         <<"S", "t", "o", "c", "k">>,
         <<"I", "n", "v", "e", "n", "t", "o", "r", "i", "e", "s">>},
     otherCurrentAssets |->
        {<<"O", "t", "h", "e", "r", " ", "C", "u", "r", "r", "e", "n", "t", " ", "A", "s", "s", "e", "t", "s">>},
     longTermAssets |->
        {<<"L", "o", "n", "g", "-", "T", "e", "r", "m", " ", "A", "s", "s", "e", "t", "s">>,
         <<"F", "i", "x", "e", "d", " ", "A", "s", "s", "e", "t", "s">>,
         <<"N", "o", "n", "-", "C", "u", "r", "r", "e", "n", "t", " ", "A", "s", "s", "e", "t", "s">>,
         <<"P", "P", "&", "E">>,
         <<"P", "r", "o", "p", "e", "r", "t", "y", ",", " ", "P", "l", "a", "n", "t", ",", " ", "a", "n", "d", " ", "E", "q", "u", "i", "p", "m", "e", "n", "t">>},
     accountsPayable |->
        {<<"A", "/", "P">>,
         <<"A", "c", "c", "o", "u", "n", "t", "s", " ", "P", "a", "y", "a", "b", "l", "e">>,
         <<"P", "a", "y", "a", "b", "l", "e", "s">>,
         <<"T", "r", "a", "d", "e", " ", "C", "r", "e", "d", "i", "t", "o", "r", "s">>},
     shortTermDebt |->
        {<<"S", "h", "o", "r", "t", "-", "T", "e", "r", "m", " ", "D", "e", "b", "t">>,
         <<"C", "u", "r", "r", "e", "n", "t", " ", "P", "o", "r", "t", "i", "o", "n", " ", "o", "f", " ", "D", "e", "b", "t">>,
         <<"C", "u", "r", "r", "e", "n", "t", " ", "D", "e", "b", "t">>},
     otherCurrentLiabilities |->
        {<<"O", "t", "h", "e", "r", " ", "C", "u", "r", "r", "e", "n", "t", " ", "L", "i", "a", "b", "i", "l", "i", "t", "i", "e", "s">>,
         <<"A", "c", "c", "r", "u", "e", "d", " ", "E", "x", "p", "e", "n", "s", "e", "s">>,
         <<"A", "c", "c", "r", "u", "e", "d", " ", "L", "i", "a", "b", "i", "l", "i", "t", "i", "e", "s">>,
         <<"O", "t", "h", "e", "r", " ", "C", "u", "r", "r", "e", "n", "t", " ", "L", "i", "a", "b", ".">>},
     longTermDebt |->
        {<<"L", "o", "n", "g", "-", "T", "e", "r", "m", " ", "D", "e", "b", "t">>,
         <<"N", "o", "n", "-", "C", "u", "r", "r", "e", "n", "t", " ", "L", "i", "a", "b", "i", "l", "i", "t", "i", "e", "s">>,
         <<"D", "e", "b", "t">>},
     shareholderEquity |->
        {<<"E", "q", "u", "i", "t", "y">>,
         <<"S", "h", "a", "r", "e", "h", "o", "l", "d", "e", "r", " ", "E", "q", "u", "i", "t", "y">>,
         <<"S", "t", "o", "c", "k", "h", "o", "l", "d", "e", "r", " ", "E", "q", "u", "i", "t", "y">>,
         <<"T", "o", "t", "a", "l", " ", "E", "q", "u", "i", "t", "y">>,
         <<"S", "h", "a", "r", "e", "h", "o", "l", "d", "e", "r", "s", " ", "E", "q", "u", "i", "t", "y">>}]

\* invertedAliasMap, key by key: the aliases trimmed and in lower case
invertedAliases ==
    [key \in DOMAIN metricAliasMap |->
        {ToLowerCase(Trim(alias)) : alias \in metricAliasMap[key]}]

\* invertedAliasMap[name]: the key that has the alias; Undefined if there is
\* none
invertedAliasMap(name) ==
    LET keys == {key \in DOMAIN invertedAliases : name \in invertedAliases[key]}
    IN IF keys = {} THEN Undefined ELSE CHOOSE key \in keys : TRUE

\* a property name that is an array index: Object.values lists these first,
\* in ascending order
IsIndexKey(name) ==
    /\ name # <<>>
    /\ \A i \in 1..Len(name) : IsDigit(name[i])
    /\ name[1] # "0" \/ Len(name) = 1
    /\ Len(name) <= 9

\* the columns of newPeriodsData in the order of Object.values: the columns
\* named by an index in ascending order, then the others as inserted
ObjectValuesOrder(names) ==
    LET n == Len(names)
        idx == {i \in 1..n : IsIndexKey(names[i])}
        Before(i, j) ==
            \/ i \in idx /\ j \notin idx
            \/ i \in idx /\ j \in idx /\ DigitsValue(names[i]) < DigitsValue(names[j])
            \/ i \notin idx /\ j \notin idx /\ i < j
    IN [k \in 1..n |-> CHOOSE i \in 1..n : Cardinality({j \in 1..n : Before(j, i)}) = k - 1]

\* k ids not in use
RECURSIVE FreshIds(_, _, _)
FreshIds(pool, used, k) ==
    IF k = 0 THEN <<>>
    ELSE LET id == FreshId(pool, used)
         IN <<id>> \o FreshIds(pool, used \cup {id}, k - 1)

\* parsedData.forEach(row => ...) for one column: the cells of the rows whose
\* metric name has a key are written over the period, row after row
RECURSIVE FillPeriod(_, _, _)
FillPeriod(period, rows, col) ==
    IF rows = <<>> THEN period
    ELSE LET row == rows[1]
             metricName == IF row = <<>> THEN <<>> ELSE row[1]
             stateKey == invertedAliasMap(ToLowerCase(Trim(metricName)))
             next ==
                 IF metricName # <<>> /\ stateKey # Undefined /\ col <= Len(row)
                 THEN [period EXCEPT ![stateKey] = row[col]]
                 ELSE period
         IN FillPeriod(next, Tail(rows), col)

\* periodNameLower.includes('ytd') || periodNameLower.includes('ttm')
IsYtdColumn(name) ==
    LET lower == ToLowerCase(name)
    IN IndexOf(lower, <<"y", "t", "d">>) > 0 \/ IndexOf(lower, <<"t", "t", "m">>) > 0

\* the spreadsheets explored, as Papa.parse hands them to the callback:
\* the header fields and the rows, each row the cells under the fields
CsvFiles ==
    {[fields |-> <<<<"M", "e", "t", "r", "i", "c">>, <<"2", "0", "2", "4">>, <<"2", "0", "2", "3">>>>,
      data |-> <<<<<<"R", "e", "v", "e", "n", "u", "e">>, <<"1", ",", "2", "0", "0">>, <<"1", ",", "0", "0", "0">>>>, <<<<" ", "c", "o", "g", "s", " ">>, <<"7", "0", "0">>, <<"6", "0", "0">>>>,
                 <<<<"H", "e", "a", "d", "c", "o", "u", "n", "t">>, <<"9">>, <<"8">>>>>>],
     [fields |-> <<<<"M", "e", "t", "r", "i", "c">>, <<"Y", "T", "D", " ", "2", "0", "2", "6">>>>,
      data |-> <<<<<<"R", "e", "v", "e", "n", "u", "e">>, <<"4", "0", "0">>>>>>],
     [fields |-> <<<<"M", "e", "t", "r", "i", "c">>, <<"2", "0", "2", "4">>>>,
      data |-> <<>>]}

\* handleImportCSV with the callback of Papa.parse; the file is parsed and the
\* callback runs before the next event.  The input is disabled while a scan
\* is pending.
handleImportCSV(file) ==
    LET data == CurrentData(financialAnalysisData)
        parsedData == file.data
        headers == file.fields
        periodNames == Tail(headers)
        ids == FreshIds(PeriodIds, IdsOf(data.periods) \cup {data.ytdActuals.id},
                        Len(periodNames))
        newPeriodsData ==
            [j \in 1..Len(periodNames) |->
                FillPeriod(createNewPeriod(ids[j], periodNames[j]), parsedData, j + 1)]
        order == ObjectValuesOrder(periodNames)
        values == [k \in 1..Len(periodNames) |-> newPeriodsData[order[k]]]
        ytdColumns == SelectSeq(values, LAMBDA p : IsYtdColumn(p.periodName))
        newPeriods == SelectSeq(values, LAMBDA p : ~IsYtdColumn(p.periodName))
        newYtdActuals ==
            IF ytdColumns = <<>> THEN data.ytdActuals ELSE ytdColumns[Len(ytdColumns)]
    IN /\ scanData = NoScan
       /\ parsedData # <<>>
       /\ headers # <<>> /\ headers[1] # <<>>
       /\ financialAnalysisData' =
              [data EXCEPT !.periods = newPeriods, !.ytdActuals = newYtdActuals]
       /\ UNCHANGED <<projectionData, scanData>>
       /\ UNCHANGED <<fitVars, valVars, srcVars>>
       /\ AppUnchanged

\* the replies of the language model explored: parsedResponse.periods
ScanReplies ==
    {<<[year |-> <<"2", "0", "2", "5">>, Revenue |-> 2600000, COGS |-> 0, OpEx |-> 650000,
        Depreciation |-> 0, Amortization |-> 0, Interest |-> 0, Taxes |-> 0],
       [year |-> <<"2", "0", "2", "3">>, Revenue |-> 2000000, COGS |-> 1300000, OpEx |-> 500000,
        Depreciation |-> 40000, Amortization |-> 0, Interest |-> 30000,
        Taxes |-> 50000]>>}

\* handleFileScan up to the first await: the closure keeps the data of the
\* render it was created in
handleFileScan ==
    /\ scanData = NoScan
    /\ scanData' = CurrentData(financialAnalysisData)
    /\ UNCHANGED <<financialAnalysisData, projectionData>>
    /\ UNCHANGED <<fitVars, valVars, srcVars>>
    /\ AppUnchanged

\* parsedResponse.periods.forEach(...): a scanned year updates the period of
\* that name or is pushed as a new period
RECURSIVE MergeScanned(_, _, _)
MergeScanned(currentPeriods, scanned, used) ==
    IF scanned = <<>> THEN currentPeriods
    ELSE LET scannedPeriod == scanned[1]
             periodName == scannedPeriod.year
             found == {i \in 1..Len(currentPeriods) :
                          currentPeriods[i].periodName = periodName}
             Values(p) ==
                 [p EXCEPT !.revenue = NatToString(scannedPeriod.Revenue),
                           !.cogs = NatToString(scannedPeriod.COGS),
                           !.operatingExpenses = NatToString(scannedPeriod.OpEx),
                           !.depreciation = NatToString(scannedPeriod.Depreciation),
                           !.amortization = NatToString(scannedPeriod.Amortization),
                           !.interestExpense = NatToString(scannedPeriod.Interest),
                           !.taxes = NatToString(scannedPeriod.Taxes)]
             id == FreshId(PeriodIds, used)
         IN IF found # {}
            THEN LET i == CHOOSE k \in found : \A j \in found : k <= j
                 IN MergeScanned([currentPeriods EXCEPT ![i] = Values(currentPeriods[i])],
                                 Tail(scanned), used)
            ELSE MergeScanned(Append(currentPeriods,
                                     Values(createNewPeriod(id, periodName))),
                              Tail(scanned), used \cup {id})

\* handleFileScan after the reply: setData({ ...data, periods: currentPeriods })
\* with the data of the closure
scanComplete(reply) ==
    LET data == scanData
        used == IdsOf(data.periods) \cup {data.ytdActuals.id}
                   \cup IdsOf(CurrentData(financialAnalysisData).periods)
                   \cup {CurrentData(financialAnalysisData).ytdActuals.id}
        currentPeriods == MergeScanned(data.periods, reply, used)
    IN /\ scanData # NoScan
       /\ Len(currentPeriods) <= MaxPeriods
       /\ financialAnalysisData' = [data EXCEPT !.periods = currentPeriods]
       /\ scanData' = NoScan
       /\ UNCHANGED projectionData
       /\ UNCHANGED <<fitVars, valVars, srcVars>>
       /\ AppUnchanged

\* the request or JSON.parse throws: the catch shows a toast
scanFailed ==
    /\ scanData # NoScan
    /\ scanData' = NoScan
    /\ UNCHANGED <<financialAnalysisData, projectionData>>
    /\ UNCHANGED <<fitVars, valVars, srcVars>>
    /\ AppUnchanged

\* the id of the period in the first column, if there is one
FirstColumn ==
    LET periods == CurrentData(financialAnalysisData).periods
    IN IF periods = <<>> THEN {} ELSE {periods[1].id}

\* the list of periods under the four operations that change its length; the
\* period deleted is the one in the first column
PeriodsNext ==
    \/ handleAddPeriod
    \/ \E periodId \in FirstColumn : handleRemovePeriod(periodId)
    \/ \E file \in CsvFiles : handleImportCSV(file)
    \/ handleFileScan
    \/ \E reply \in ScanReplies : scanComplete(reply)
    \/ scanFailed

(* ---- the projection modeler: the assumptions form ---- *)

\* const assumptions = data?.assumptions ?? defaultAssumptions
CurrentAssumptions(data) ==
    IF data = NullProjection THEN defaultAssumptions ELSE data.assumptions

handleAssumptionChange(name, value) ==
    /\ projectionData' =
           [assumptions |-> [CurrentAssumptions(projectionData) EXCEPT ![name] = value]]
    /\ projectionData' # projectionData
    /\ UNCHANGED <<financialAnalysisData, scanData>>
    /\ UNCHANGED <<fitVars, valVars, srcVars>>
    /\ AppUnchanged

\* the texts typed into an amount field of any of the three screens
AmountTexts ==
    {<<>>, <<"a", "b", "c">>, <<"$", "1", ",", "0", "0", "0">>, <<"-", "5", "0", "0">>, <<"1", ",", "2", "3", "4", ".", "5">>, <<"1", "2">>}

\* one amount field of each screen: an add-back of the hub, the SDE of the
\* calculator, the starting revenue of the modeler
ParseNext ==
    \/ \E value \in AmountTexts : handleAddBackChange("b1", value)
    \/ \E value \in AmountTexts : handleInputChange("sde", value)
    \/ \E value \in AmountTexts : handleAssumptionChange("startingRevenue", value)

(* ---- the formatters of amounts ---- *)

\* the en-US grouping of a run of digits: a comma before every group of three
RECURSIVE GroupThousands(_)
GroupThousands(digits) ==
    IF Len(digits) <= 3 THEN digits
    ELSE GroupThousands(SubSeq(digits, 1, Len(digits) - 3))
             \o <<",">> \o SubSeq(digits, Len(digits) - 2, Len(digits))

\* Intl.NumberFormat with maximumFractionDigits: 0, on the exact value: the
\* magnitude rounded to a whole number, a tie going away from zero, grouped
RoundedMagnitude(x) == GroupThousands(NatToString((2 * Abs(x.n) + x.d) \div (2 * x.d)))

\* the sign Intl.NumberFormat puts in front of a negative value
MinusSign(x) == IF x.n < 0 THEN <<"-">> ELSE <<>>

\* the calculator's formatCurrency: a plain number without fraction digits
formatCurrency(value) ==
    IF IsNaN(value) THEN <<"N", "a", "N">>
    ELSE MinusSign(value) \o RoundedMagnitude(value)

\* the hub's formatCurrency(val) with compact = false: US dollars without
\* fraction digits
formatCurrency_Hub(val) ==
    IF IsNaN(val) THEN <<"$", "0">>
    ELSE MinusSign(val) \o <<"$">> \o RoundedMagnitude(val)

\* the modeler's formatCurrency: US dollars without fraction digits
formatCurrency_Modeler(val) ==
    IF IsNaN(val) THEN <<"$", "N", "a", "N">>
    ELSE MinusSign(val) \o <<"$">> \o RoundedMagnitude(val)

(* ---- the projection modeler: the projections useMemo, revenue column ---- *)

\* the double nearest to a non-negative decimal of at most four fraction
\* digits, which is what parseFloat returns for its text
DFromRat(x) == DDivInt(DFromInt(x.n), x.d)

\* parseNum(text) of the modeler as a double; the texts explored are
\* non-negative decimals
parseNum_Double(text) == DFromRat(parseNum_Modeler(text))

\* parseNum(text) / 100
Percent(text) == DDivInt(parseNum_Double(text), 100)

\* the months that follow a month of revenue lastMonthRevenue, each the one
\* before it times growth
RECURSIVE MonthsAfter(_, _, _)
MonthsAfter(lastMonthRevenue, growth, months) ==
    IF months = 0 THEN <<>>
    ELSE LET revenue == DMul(lastMonthRevenue, growth)
         IN <<revenue>> \o MonthsAfter(revenue, growth, months - 1)

\* the revenue of M1..M12: lastMonthRevenue starts at startRev / 12 and every
\* month, the first included, is lastMonthRevenue * (1 + revGrowthMonthly)
monthlyRevenue(assumptions) ==
    LET growth == DAdd(DFromInt(1), Percent(assumptions.revenueGrowthY1_monthly))
        start == DDivInt(parseNum_Double(assumptions.startingRevenue), 12)
    IN MonthsAfter(start, growth, 12)

\* the accumulator of reduce after each of the values, starting from acc
RECURSIVE RunningSums(_, _)
RunningSums(acc, values) ==
    IF values = <<>> THEN <<>>
    ELSE LET sum == DAdd(acc, values[1])
         IN <<sum>> \o RunningSums(sum, Tail(values))

\* monthlyProjections.reduce(...): acc[key] = (acc[key] || 0) + month[key]
SumInOrder(values) ==
    IF values = <<>> THEN DFromInt(0)
    ELSE LET sums == RunningSums(DFromInt(0), values) IN sums[Len(sums)]

\* the revenue of the projections useMemo: the twelve months and the three
\* years; the other columns are computed from these and do not feed back
projections(assumptions) ==
    LET monthly == monthlyRevenue(assumptions)
        y1 == SumInOrder(monthly)
        y2 == DMul(y1, DAdd(DFromInt(1), Percent(assumptions.revenueGrowthY2_annual)))
        y3 == DMul(y2, DAdd(DFromInt(1), Percent(assumptions.revenueGrowthY3_annual)))
    IN [monthly |-> monthly, annual |-> <<y1, y2, y3>>]

\* the texts typed into the assumptions that drive revenue and the rates of
\* costs and taxes
AssumptionEdits ==
    [startingRevenue |-> {<<"2", "5", "0", "0", "0", "0", "0">>, <<"1", "0", "0", "0", "0", "0", "0">>, <<"1", "2", "0", "0", "0", "0", "0">>},
     revenueGrowthY1_monthly |-> {<<"1", ".", "0">>, <<"0">>, <<"2", ".", "5">>},
     revenueGrowthY2_annual |-> {<<"1", "0", ".", "0">>, <<"0">>},
     revenueGrowthY3_annual |-> {<<"8", ".", "0">>, <<"0">>},
     cogsPercentOfRevenue |-> {<<"6", "0", ".", "0">>, <<"0">>},
     opExPercentOfRevenue |-> {<<"2", "5", ".", "0">>, <<"0">>},
     opExGrowthAnnual |-> {<<"3", ".", "0">>, <<"0">>},
     effectiveTaxRate |-> {<<"2", "5", ".", "0">>, <<"0">>}]

ProjectionNext ==
    \/ \E name \in DOMAIN AssumptionEdits : \E value \in AssumptionEdits[name] :
          handleAssumptionChange(name, value)
    \/ handleClearProjectionData

(***************************************************************************)
(* The order of the periods in the hub's calculations                      *)
(***************************************************************************)

\* the comparison function handed to sort:
\* (a, b) => parseInt(a.periodName) - parseInt(b.periodName)
compareYears(a, b) == RSub(parseInt(a.periodName), parseInt(b.periodName))

\* Array.prototype.sort with compareYears.  When every name starts with an
\* integer the function is a consistent comparison and the sort is the
\* stable ascending one.  When a name does not (parseInt gives NaN, which
\* sort reads as "equal"), the function is not consistent and the order is
\* implementation-defined: any arrangement in which no two neighbours are
\* out of order for the function may come out (V8 finds the array already
\* in order whenever that holds of the array itself).
SortOutcomes(ps) ==
    IF \A i \in 1..Len(ps) : ~IsNaN(parseInt(ps[i].periodName))
    THEN {SortAscending(ps)}
    ELSE {[i \in 1..Len(ps) |-> ps[f[i]]] :
             f \in {g \in Permutations(1..Len(ps)) :
                       \A i \in 1..(Len(ps) - 1) :
                           LET order == compareYears(ps[g[i]], ps[g[i + 1]])
                           IN IsNaN(order) \/ order.n <= 0}}

\* { ...data.ytdActuals, periodName: `${new Date().getFullYear()} (Ann.)`,
\*   id: 'ytd-annualized' }
ytdAnnualizedPeriod(data) ==
    [data.ytdActuals EXCEPT
        !.periodName = NatToString(CurrentYear) \o AnnualizedSuffix,
        !.id = "ytd-annualized"]

\* [...data.periods, ytdAnnualizedPeriod].sort(...): the orders it can have
allPeriodsForCalc(data) ==
    SortOutcomes(Append(data.periods, ytdAnnualizedPeriod(data)))

\* the names typed into the header of a column
NameEdits == {<<>>, <<"2", "0", "2", "4">>, <<"2", "0", "3", "0">>}

OrderNext ==
    \/ \E periodId \in {"p1", "p2", "p3"} : \E value \in NameEdits :
          handlePeriodChange(periodId, "periodName", value)
    \/ handleAddPeriod
    \/ \E periodId \in FirstColumn : handleRemovePeriod(periodId)

(* ---- the deal structures explored: saved forms and the edits made to them ---- *)

\* the forms found in local storage when the calculator opens: loans
\* without interest (over ten years, or with a term of 0) and a small loan at
\* 100% a month over one year, each with a seller note of either kind
SavedDeals ==
    {[defaultInputs EXCEPT !.loanAmount = sba[1],
                           !.sbaRate = sba[2], !.sbaTerm = sba[3],
                           !.amortizingNoteRate = note[1],
                           !.amortizingNoteTerm = note[2]] :
        sba \in {<<<<"1", ",", "0", "0", "0", ",", "0", "0", "0">>, <<"0">>, <<"1", "0">>>>,
                 <<<<"1", ",", "0", "5", "0", ",", "0", "0", "0">>, <<"0">>, <<"0">>>>,
                 <<<<"1", "0", "0", ",", "0", "0", "0">>, <<"1", "2", "0", "0">>, <<"1">>>>},
        note \in {<<<<"0">>, <<"5">>>>, <<<<"1", "2", "0", "0">>, <<"1">>>>}}

\* the texts typed into the fields that drive debt service and coverage
DealEdits ==
    [sde |-> {<<"5", "0", "0", ",", "0", "0", "0">>, <<"2", "8", "2", ",", "5", "0", "0">>, <<"2", "7", "0", ",", "0", "0", "0">>, <<"2", "5", "0", ",", "0", "0", "0">>},
     loanAmount |-> {<<"1", "0", "0", ",", "0", "0", "0">>, <<"0">>},
     amortizingSellerNoteAmount |-> {<<"1", "5", "0", ",", "0", "0", "0">>, <<"0">>}]

handleSelectChange(name, value) ==
    /\ valuationInputs' = [CurrentInputs(valuationInputs) EXCEPT ![name] = value]
    /\ valuationInputs' # valuationInputs
    /\ errors' = ErrorsEffect(valuationInputs')
    /\ UNCHANGED <<isAdvancedView, isStressed>>
    /\ UNCHANGED <<fitVars, finVars, srcVars>>
    /\ AppUnchanged

DebtNext ==
    \/ \E name \in DOMAIN DealEdits : \E value \in DealEdits[name] :
          handleInputChange(name, value)
    \/ \E value \in {"interestOnly", "amortizing"} :
          handleSelectChange("amortizingNoteType", value)
    \/ \E b \in BOOLEAN : setIsAdvancedView(b)
    \/ \E b \in BOOLEAN : setIsStressed(b)
    \/ handleLoadFromAnalysis

\* the cells of the financial statements that are the denominators of a ratio
RatioEdits ==
    {<<"p2", "revenue">>, <<"p1", "revenue">>, <<"ytd", "revenue">>,
     <<"p1", "cogs">>, <<"p1", "accountsPayable">>, <<"p1", "shortTermDebt">>,
     <<"p1", "otherCurrentLiabilities">>}

RatioNext ==
    \/ \E cell \in RatioEdits : \E value \in {<<"0">>} :
          handlePeriodChange(cell[1], cell[2], value)
    \/ \E name \in {"loanAmount", "amortizingSellerNoteAmount"} :
          handleInputChange(name, <<"0">>)
    \/ \E b \in BOOLEAN : setIsAdvancedView(b)

(***************************************************************************)
(* The hub while a document scan is pending                                *)
(***************************************************************************)

\* the cells typed into while the scan runs: none of the table's inputs is
\* disabled by isScanning, only the buttons and the two file inputs are
ScanEdits ==
    {<<"periodName", <<"2", "0", "3", "0">>>>,
     <<"revenue", <<"1", ",", "8", "0", "0", ",", "0", "0", "0">>>>}

\* what the merge of a reply into the given data is: the seven fields of the
\* periods matched by name, and the unmatched years appended
mergedInto(data, reply, used) ==
    [data EXCEPT !.periods = MergeScanned(data.periods, reply, used)]

ScanNext ==
    \/ \E edit \in ScanEdits : handlePeriodChange("p1", edit[1], edit[2])
    \/ \E value \in AddBackEdits : handleAddBackChange("b1", value)
    \/ handleAddPeriod
    \/ \E periodId \in FirstColumn : handleRemovePeriod(periodId)
    \/ handleFileScan
    \/ \E reply \in ScanReplies : scanComplete(reply)
    \/ scanFailed


(***************************************************************************)
(* App: the buy-box history, the profiles, sign-out, sign-in and reload    *)
(***************************************************************************)

\* most states kept in past, and most profiles kept
MaxHistory == 3
MaxProfiles == 2

(* ---- useHistory ---- *)

\* the hook's state; its present is buyBox
History == [past |-> past, present |-> buyBox, future |-> future]

\* faulty variant: set keeps the future
set_KeepingFuture(currentHistory, newPresent) ==
    IF newPresent = currentHistory.present THEN currentHistory
    ELSE [past |-> Append(currentHistory.past, currentHistory.present),
          present |-> newPresent,
          future |-> currentHistory.future]

\* set: JSON.stringify of two criteria is the same text exactly when the
\* criteria are equal (every object here has its keys in the same order)
set(currentHistory, newPresent) ==
    IF newPresent = currentHistory.present THEN currentHistory
    ELSE [past |-> Append(currentHistory.past, currentHistory.present),
          present |-> newPresent,
          future |-> <<>>]

\* undo, with its test of canUndo
undone(currentHistory) ==
    IF currentHistory.past = <<>> THEN currentHistory
    ELSE [past |-> SubSeq(currentHistory.past, 1, Len(currentHistory.past) - 1),
          present |-> currentHistory.past[Len(currentHistory.past)],
          future |-> <<currentHistory.present>> \o currentHistory.future]

\* redo, with its test of canRedo
redone(currentHistory) ==
    IF currentHistory.future = <<>> THEN currentHistory
    ELSE [past |-> Append(currentHistory.past, currentHistory.present),
          present |-> currentHistory.future[1],
          future |-> Tail(currentHistory.future)]

\* the history after a step is h
HistoryBecomes(h) ==
    /\ buyBox' = h.present
    /\ past' = h.past
    /\ future' = h.future

\* what the handlers of App leave alone in the screens
ScreensUnchanged ==
    /\ UNCHANGED <<aiResponse, fitAnalysis, sourcingResultsGlobal>>
    /\ UNCHANGED <<valVars, finVars, srcVars>>

\* the criteria a user enters in the buy-box form, told apart by the weight of
\* Geography: some are entered by one user only
Criteria(weight) == [ZeroBuyBox EXCEPT !.geography = Weighted(weight)]
EnteredBy == [uid \in Users |-> IF uid = "u1" THEN {Criteria(1), Criteria(3)}
                                ELSE {Criteria(2), Criteria(3)}]

\* an edit of the buy-box form
setBuyBox(newPresent) ==
    /\ user # NoUser
    /\ Len(past) < MaxHistory
    /\ newPresent # buyBox
    /\ HistoryBecomes(set(History, newPresent))
    /\ UNCHANGED <<user, savedProfiles, currentProfileName>>
    /\ ScreensUnchanged
    /\ Persisted

undo ==
    /\ user # NoUser
    /\ HistoryBecomes(undone(History))
    /\ UNCHANGED <<user, savedProfiles, currentProfileName>>
    /\ ScreensUnchanged
    /\ Persisted

redo ==
    /\ user # NoUser
    /\ HistoryBecomes(redone(History))
    /\ UNCHANGED <<user, savedProfiles, currentProfileName>>
    /\ ScreensUnchanged
    /\ Persisted

(* ---- the profiles ---- *)

\* the names typed into the save dialog and into the rename prompt
ProfileNames ==
    {DefaultName, <<"d", "e", "f", "a", "u", "l", "t">>, <<"W", "o", "r", "k">>, <<"P", "l", "a", "n">>}

ProfileNamed(profiles, name) == SelectSeq(profiles, LAMBDA p : p.name = name)
ProfileNamedLike(profiles, name) ==
    SelectSeq(profiles, LAMBDA p : ToLowerCase(p.name) = ToLowerCase(name))

handleNewProfile ==
    /\ user # NoUser
    /\ Len(past) < MaxHistory
    /\ HistoryBecomes(set(History, defaultBuyBoxCriteria))
    /\ currentProfileName' = NullName
    /\ UNCHANGED <<user, savedProfiles>>
    /\ ScreensUnchanged
    /\ Persisted

\* handleSaveProfileClick, then handleSaveProfile; confirmed is the answer to
\* window.confirm when the name is taken
handleSaveProfile(name, confirmed) ==
    /\ user # NoUser
    /\ Trim(name) # <<>>
    /\ IF ProfileNamedLike(savedProfiles, name) # <<>>
       THEN /\ confirmed
            /\ savedProfiles' =
                   [i \in 1..Len(savedProfiles) |->
                       IF ToLowerCase(savedProfiles[i].name) = ToLowerCase(name)
                       THEN [name |-> name, criteria |-> buyBox]
                       ELSE savedProfiles[i]]
       ELSE /\ Len(savedProfiles) < MaxProfiles
            /\ savedProfiles' = Append(savedProfiles, [name |-> name, criteria |-> buyBox])
    /\ currentProfileName' = Name(name)
    /\ UNCHANGED <<user, buyBox, past, future>>
    /\ ScreensUnchanged
    /\ Persisted

\* onChange of the Load Profile select: name is one of its options
handleLoadProfile(name) ==
    /\ user # NoUser
    /\ Len(past) < MaxHistory
    /\ ProfileNamed(savedProfiles, name) # <<>>
    /\ HistoryBecomes(set(History, ProfileNamed(savedProfiles, name)[1].criteria))
    /\ currentProfileName' = Name(name)
    /\ UNCHANGED <<user, savedProfiles>>
    /\ ScreensUnchanged
    /\ Persisted

\* handleRenameClick (the button is disabled for no profile and for
\* 'Default'), then handleRenameProfile with the prompt's answer
handleRenameProfile(newName) ==
    /\ user # NoUser
    /\ currentProfileName # NullName
    /\ currentProfileName # Name(DefaultName)
    /\ LET oldName == currentProfileName.name
       IN /\ Trim(newName) # <<>>
          /\ Trim(newName) # oldName
          /\ ToLowerCase(Trim(newName)) # ToLowerCase(oldName)
          /\ ProfileNamedLike(savedProfiles, Trim(newName)) = <<>>
          /\ savedProfiles' =
                 [i \in 1..Len(savedProfiles) |->
                     IF savedProfiles[i].name = oldName
                     THEN [savedProfiles[i] EXCEPT !.name = Trim(newName)]
                     ELSE savedProfiles[i]]
          /\ currentProfileName' = Name(Trim(newName))
    /\ UNCHANGED <<user, buyBox, past, future>>
    /\ ScreensUnchanged
    /\ Persisted

\* handleDeleteClick (the button is disabled for no profile and for
\* 'Default'), then handleDeleteProfile with the deletion confirmed
handleDeleteProfile ==
    /\ user # NoUser
    /\ Len(past) < MaxHistory
    /\ currentProfileName # NullName
    /\ currentProfileName # Name(DefaultName)
    /\ LET name == currentProfileName.name
           defaultProfile == ProfileNamed(savedProfiles, DefaultName)
       IN /\ savedProfiles' = SelectSeq(savedProfiles, LAMBDA p : p.name # name)
          /\ IF defaultProfile # <<>>
             THEN /\ HistoryBecomes(set(History, defaultProfile[1].criteria))
                  /\ currentProfileName' = Name(DefaultName)
             ELSE /\ HistoryBecomes(set(History, defaultBuyBoxCriteria))
                  /\ currentProfileName' = NullName
    /\ UNCHANGED user
    /\ ScreensUnchanged
    /\ Persisted

(* ---- sign-out, sign-in, reload ---- *)

\* the state App keeps, as one record
AppState ==
    [history |-> History, savedProfiles |-> savedProfiles,
     currentProfileName |-> currentProfileName,
     valuationInputs |-> valuationInputs,
     sourcingResultsGlobal |-> sourcingResultsGlobal,
     fitAnalysis |-> fitAnalysis,
     financialAnalysisData |-> financialAnalysisData,
     projectionData |-> projectionData]

\* the arguments of useState and of useHistory in App
InitialAppState ==
    [history |-> [past |-> <<>>, present |-> defaultBuyBoxCriteria, future |-> <<>>],
     savedProfiles |-> <<>>,
     currentProfileName |-> Name(DefaultName),
     valuationInputs |-> NullInputs,
     sourcingResultsGlobal |-> <<>>,
     fitAnalysis |-> NoFitAnalysis,
     financialAnalysisData |-> NullData,
     projectionData |-> NullProjection]

\* the effect that clears the state on logout; the history is not replaced,
\* the default criteria are set in it
LogoutEffect(s) ==
    [InitialAppState EXCEPT !.history = set(s.history, defaultBuyBoxCriteria)]

\* the data loading effect for the items of one uid: each state is set from
\* its item when there is one
LoadEffect(store, s) ==
    LET storedProfiles ==
            IF store.buyBoxProfiles = NoItem THEN <<>> ELSE store.buyBoxProfiles[1]
        initialProfiles ==
            IF storedProfiles = <<>>
            THEN <<[name |-> DefaultName, criteria |-> defaultBuyBoxCriteria]>>
            ELSE storedProfiles
        defaultProf == ProfileNamed(initialProfiles, DefaultName)
    IN [history |->
            IF defaultProf # <<>> THEN set(s.history, defaultProf[1].criteria)
            ELSE s.history,
        savedProfiles |-> initialProfiles,
        currentProfileName |->
            IF defaultProf # <<>> THEN Name(DefaultName) ELSE s.currentProfileName,
        valuationInputs |->
            IF store.valuationCalculatorInputs = NoItem THEN s.valuationInputs
            ELSE store.valuationCalculatorInputs[1],
        sourcingResultsGlobal |->
            IF store.sourcingEngineResults = NoItem THEN s.sourcingResultsGlobal
            ELSE store.sourcingEngineResults[1],
        fitAnalysis |->
            IF store.buyBoxFitAnalysis = NoItem THEN s.fitAnalysis
            ELSE store.buyBoxFitAnalysis[1],
        financialAnalysisData |->
            IF store.financialAnalysisData = NoItem THEN s.financialAnalysisData
            ELSE store.financialAnalysisData[1],
        projectionData |->
            IF store.projectionData = NoItem THEN s.projectionData
            ELSE store.projectionData[1]]

\* App's state after a step is s; the screens are mounted anew
AppStateBecomes(s) ==
    /\ HistoryBecomes(s.history)
    /\ savedProfiles' = s.savedProfiles
    /\ currentProfileName' = s.currentProfileName
    /\ valuationInputs' = s.valuationInputs
    /\ sourcingResultsGlobal' = s.sourcingResultsGlobal
    /\ fitAnalysis' = s.fitAnalysis
    /\ financialAnalysisData' = s.financialAnalysisData
    /\ projectionData' = s.projectionData
    /\ isAdvancedView' = FALSE
    /\ isStressed' = FALSE
    /\ errors' = ErrorsEffect(s.valuationInputs)

\* the items of uid after the data saving effects have run on the state s
StoredAfter(uid, s) ==
    [localStorage EXCEPT ![uid] =
        SaveEffects(@, s.savedProfiles, s.valuationInputs, s.sourcingResultsGlobal,
                    s.fitAnalysis, s.financialAnalysisData, s.projectionData)]

\* signOut: user becomes null, App renders Login and stays mounted
handleLogout ==
    /\ user # NoUser
    /\ scanData = NoScan /\ sourcingRun = NoRun
    /\ Len(past) < MaxHistory
    /\ user' = NoUser
    /\ AppStateBecomes(LogoutEffect(AppState))
    /\ UNCHANGED <<aiResponse, scanData, srcVars, localStorage>>

\* a user signs in on the Login screen
login(uid) ==
    /\ user = NoUser
    /\ Len(past) < MaxHistory
    /\ user' = uid
    /\ LET s == LoadEffect(localStorage[uid], AppState)
       IN /\ AppStateBecomes(s)
          /\ localStorage' = StoredAfter(uid, s)
    /\ UNCHANGED <<aiResponse, scanData, srcVars>>

\* the page is loaded again by the signed-in user: App is constructed, then
\* the data loading effect runs
reload ==
    /\ user # NoUser
    /\ LET s == LoadEffect(localStorage[user], InitialAppState)
       IN /\ AppStateBecomes(s)
          /\ localStorage' = StoredAfter(user, s)
    /\ scanData' = NoScan
    /\ isSourcingGlobal' = FALSE
    /\ isAnalyzingGlobal' = FALSE
    /\ sourcingRun' = NoRun
    /\ UNCHANGED <<user, aiResponse>>

\* the buy-box history across sessions
HistoryNext ==
    \/ \E uid \in Users : \E newPresent \in EnteredBy[uid] :
          uid = user /\ setBuyBox(newPresent)
    \/ undo
    \/ redo
    \/ handleLogout
    \/ \E uid \in Users : login(uid)

\* the profiles of one user
ProfilesNext ==
    \/ \E weight \in 1..2 : setBuyBox(Criteria(weight))
    \/ handleNewProfile
    \/ \E name \in ProfileNames : \E confirmed \in BOOLEAN :
          handleSaveProfile(name, confirmed)
    \/ \E name \in ProfileNames : handleLoadProfile(name)
    \/ \E newName \in ProfileNames : handleRenameProfile(newName)
    \/ handleDeleteProfile

\* entering, resetting and reloading the data of the three analysis screens
ReloadNext ==
    \/ \E value \in {<<"5", "0", "0">>, <<"9", "0", "0">>} : handleInputChange("sde", value)
    \/ handleClearValuationData
    \/ \E value \in {<<"6">>, <<"9">>} : handleYtdMonthsChange(value)
    \/ handleClearFinancialAnalysisData
    \/ \E value \in {<<"5", "0", "0">>, <<"9", "0", "0">>} :
          handleAssumptionChange("startingRevenue", value)
    \/ handleClearProjectionData
    \/ reload
(***************************************************************************)
(* Specifications                                                          *)
(***************************************************************************)

\* App after the first sign-in of user u1 on this browser: the default buy
\* box saved as the profile Default, nothing analysed, no stored inputs; the
\* calculator's effect has run once on the default inputs
Init ==
    /\ buyBox = defaultBuyBoxCriteria
    /\ aiResponse = <<>>
    /\ fitAnalysis = NoFitAnalysis
    /\ sourcingResultsGlobal = <<>>
    /\ valuationInputs = NullInputs
    /\ isAdvancedView = FALSE
    /\ isStressed = FALSE
    /\ errors = calculations(defaultInputs).validationErrors
    /\ financialAnalysisData = NullData
    /\ projectionData = NullProjection
    /\ scanData = NoScan
    /\ isSourcingGlobal = FALSE
    /\ isAnalyzingGlobal = FALSE
    /\ sourcingRun = NoRun
    /\ user = "u1"
    /\ savedProfiles = <<[name |-> DefaultName, criteria |-> buyBox]>>
    /\ currentProfileName = Name(DefaultName)
    /\ past = IF buyBox = defaultBuyBoxCriteria THEN <<>> ELSE <<defaultBuyBoxCriteria>>
    /\ future = <<>>
    /\ localStorage =
           [uid \in Users |->
               IF uid = user
               THEN SaveEffects(EmptyStore, savedProfiles, valuationInputs,
                                sourcingResultsGlobal, fitAnalysis,
                                financialAnalysisData, projectionData)
               ELSE EmptyStore]

\* App after construction with a default profile found in local storage
\* (its criteria become the buy box) and the reply the language model is
\* going to give
FitInit ==
    /\ buyBox \in StoredProfiles
    /\ aiResponse \in Scorecards
    /\ fitAnalysis = NoFitAnalysis
    /\ sourcingResultsGlobal = <<>>
    /\ valuationInputs = NullInputs
    /\ isAdvancedView = FALSE
    /\ isStressed = FALSE
    /\ errors = calculations(defaultInputs).validationErrors
    /\ financialAnalysisData = NullData
    /\ projectionData = NullProjection
    /\ scanData = NoScan
    /\ isSourcingGlobal = FALSE
    /\ isAnalyzingGlobal = FALSE
    /\ sourcingRun = NoRun
    /\ user = "u1"
    /\ savedProfiles = <<[name |-> DefaultName, criteria |-> buyBox]>>
    /\ currentProfileName = Name(DefaultName)
    /\ past = IF buyBox = defaultBuyBoxCriteria THEN <<>> ELSE <<defaultBuyBoxCriteria>>
    /\ future = <<>>
    /\ localStorage =
           [uid \in Users |->
               IF uid = user
               THEN SaveEffects(EmptyStore, savedProfiles, valuationInputs,
                                sourcingResultsGlobal, fitAnalysis,
                                financialAnalysisData, projectionData)
               ELSE EmptyStore]

Next == FitNext \/ ValNext \/ FinNext \/ LoadNext

\* the whole application
Spec == Init /\ [][Next]_vars

\* fit scoring, at the buy-box screen and in the sourcing engine
SpecFit == FitInit /\ [][FitNext]_vars

\* the deal-structure calculator
SpecVal == Init /\ [][ValNext]_vars

\* the financial analysis hub
SpecFin == Init /\ [][FinNext]_vars

\* annualization, in the hub and in the loader of the projection modeler
SpecLoad == Init /\ [][LoadNext]_vars
SpecPeriods == Init /\ [][PeriodsNext]_vars
SpecParse == Init /\ [][ParseNext]_vars
SpecProjection == Init /\ [][ProjectionNext]_vars

\* the calculator opened on a saved form
DebtInit ==
    /\ buyBox = defaultBuyBoxCriteria
    /\ aiResponse = <<>>
    /\ fitAnalysis = NoFitAnalysis
    /\ sourcingResultsGlobal = <<>>
    /\ valuationInputs \in SavedDeals
    /\ isAdvancedView = FALSE
    /\ isStressed = FALSE
    /\ errors = calculations(valuationInputs).validationErrors
    /\ financialAnalysisData = NullData
    /\ projectionData = NullProjection
    /\ scanData = NoScan
    /\ isSourcingGlobal = FALSE
    /\ isAnalyzingGlobal = FALSE
    /\ sourcingRun = NoRun
    /\ user = "u1"
    /\ savedProfiles = <<[name |-> DefaultName, criteria |-> buyBox]>>
    /\ currentProfileName = Name(DefaultName)
    /\ past = IF buyBox = defaultBuyBoxCriteria THEN <<>> ELSE <<defaultBuyBoxCriteria>>
    /\ future = <<>>
    /\ localStorage =
           [uid \in Users |->
               IF uid = user
               THEN SaveEffects(EmptyStore, savedProfiles, valuationInputs,
                                sourcingResultsGlobal, fitAnalysis,
                                financialAnalysisData, projectionData)
               ELSE EmptyStore]

SpecDebt == DebtInit /\ [][DebtNext]_vars

\* the calculator opened on a saved form with an interest-only seller note
RatioInit ==
    /\ buyBox = defaultBuyBoxCriteria
    /\ aiResponse = <<>>
    /\ fitAnalysis = NoFitAnalysis
    /\ sourcingResultsGlobal = <<>>
    /\ valuationInputs \in {deal \in SavedDeals : deal.amortizingNoteRate = <<"0">>}
    /\ isAdvancedView = FALSE
    /\ isStressed = FALSE
    /\ errors = calculations(valuationInputs).validationErrors
    /\ financialAnalysisData = NullData
    /\ projectionData = NullProjection
    /\ scanData = NoScan
    /\ isSourcingGlobal = FALSE
    /\ isAnalyzingGlobal = FALSE
    /\ sourcingRun = NoRun
    /\ user = "u1"
    /\ savedProfiles = <<[name |-> DefaultName, criteria |-> buyBox]>>
    /\ currentProfileName = Name(DefaultName)
    /\ past = IF buyBox = defaultBuyBoxCriteria THEN <<>> ELSE <<defaultBuyBoxCriteria>>
    /\ future = <<>>
    /\ localStorage =
           [uid \in Users |->
               IF uid = user
               THEN SaveEffects(EmptyStore, savedProfiles, valuationInputs,
                                sourcingResultsGlobal, fitAnalysis,
                                financialAnalysisData, projectionData)
               ELSE EmptyStore]

SpecRatio == RatioInit /\ [][RatioNext]_vars

\* the hub's table edited while documents are scanned
SpecScan == Init /\ [][ScanNext]_vars

\* App after the first sign-in, and the reply the language model is going to
\* give for each listing
SourcingInit ==
    /\ buyBox = defaultBuyBoxCriteria
    /\ aiResponse \in Scorecards
    /\ fitAnalysis = NoFitAnalysis
    /\ sourcingResultsGlobal = <<>>
    /\ valuationInputs = NullInputs
    /\ isAdvancedView = FALSE
    /\ isStressed = FALSE
    /\ errors = calculations(defaultInputs).validationErrors
    /\ financialAnalysisData = NullData
    /\ projectionData = NullProjection
    /\ scanData = NoScan
    /\ isSourcingGlobal = FALSE
    /\ isAnalyzingGlobal = FALSE
    /\ sourcingRun = NoRun
    /\ user = "u1"
    /\ savedProfiles = <<[name |-> DefaultName, criteria |-> buyBox]>>
    /\ currentProfileName = Name(DefaultName)
    /\ past = <<>>
    /\ future = <<>>
    /\ localStorage =
           [uid \in Users |->
               IF uid = user
               THEN SaveEffects(EmptyStore, savedProfiles, valuationInputs,
                                sourcingResultsGlobal, fitAnalysis,
                                financialAnalysisData, projectionData)
               ELSE EmptyStore]

\* the find-and-analyze run.  No request of the language model stays pending
\* for ever: it is answered, or at the latest it fails.  (In each step the
\* failure is enabled exactly when the other replies are, so weak fairness
\* of the two failures allows every run that does not hang.)
SpecSourcing ==
    /\ SourcingInit
    /\ [][SourcingNext]_vars
    /\ WF_vars(searchFailed)
    /\ WF_vars(listingFailed)

\* the hub's columns renamed, added and deleted
SpecOrder == Init /\ [][OrderNext]_vars

\* App after the first sign-in with a stored profile that weighs Geography,
\* and a reply whose rows may lack cells
RowsInit ==
    /\ buyBox \in GeographyBoxes
    /\ aiResponse \in {t.text : t \in ShortTables}
    /\ fitAnalysis = NoFitAnalysis
    /\ sourcingResultsGlobal = <<>>
    /\ valuationInputs = NullInputs
    /\ isAdvancedView = FALSE
    /\ isStressed = FALSE
    /\ errors = calculations(defaultInputs).validationErrors
    /\ financialAnalysisData = NullData
    /\ projectionData = NullProjection
    /\ scanData = NoScan
    /\ isSourcingGlobal = FALSE
    /\ isAnalyzingGlobal = FALSE
    /\ sourcingRun = NoRun
    /\ user = "u1"
    /\ savedProfiles = <<[name |-> DefaultName, criteria |-> buyBox]>>
    /\ currentProfileName = Name(DefaultName)
    /\ past = <<defaultBuyBoxCriteria>>
    /\ future = <<>>
    /\ localStorage =
           [uid \in Users |->
               IF uid = user
               THEN SaveEffects(EmptyStore, savedProfiles, valuationInputs,
                                sourcingResultsGlobal, fitAnalysis,
                                financialAnalysisData, projectionData)
               ELSE EmptyStore]

\* fit scoring of replies whose rows may lack cells
SpecRows == RowsInit /\ [][FitNext]_vars

\* App after the first sign-in with a stored profile, and the reply that
\* finds every criterion of that profile met
AllYesInit ==
    /\ buyBox \in AllYesBoxes
    /\ aiResponse = AllYesOf[buyBox]
    /\ fitAnalysis = NoFitAnalysis
    /\ sourcingResultsGlobal = <<>>
    /\ valuationInputs = NullInputs
    /\ isAdvancedView = FALSE
    /\ isStressed = FALSE
    /\ errors = calculations(defaultInputs).validationErrors
    /\ financialAnalysisData = NullData
    /\ projectionData = NullProjection
    /\ scanData = NoScan
    /\ isSourcingGlobal = FALSE
    /\ isAnalyzingGlobal = FALSE
    /\ sourcingRun = NoRun
    /\ user = "u1"
    /\ savedProfiles = <<[name |-> DefaultName, criteria |-> buyBox]>>
    /\ currentProfileName = Name(DefaultName)
    /\ past = <<defaultBuyBoxCriteria>>
    /\ future = <<>>
    /\ localStorage =
           [uid \in Users |->
               IF uid = user
               THEN SaveEffects(EmptyStore, savedProfiles, valuationInputs,
                                sourcingResultsGlobal, fitAnalysis,
                                financialAnalysisData, projectionData)
               ELSE EmptyStore]

\* fit scoring of replies in which every criterion fits
SpecAllYes == AllYesInit /\ [][FitNext]_vars

\* the buy-box history while users sign out and in
SpecHistory == Init /\ [][HistoryNext]_vars

\* the profiles of the signed-in user
SpecProfiles == Init /\ [][ProfilesNext]_vars

\* the analysis screens and the reload of the page
SpecReload == Init /\ [][ReloadNext]_vars
(***************************************************************************)
(* What the entered texts mean                                             *)
(***************************************************************************)

\* the number a reader takes each entered text to mean
EnteredAmounts == <<
    [text |-> <<"5", "0", "0", ",", "0", "0", "0">>,
     amount |-> RInt(500000)],
    [text |-> <<"0">>,
     amount |-> RInt(0)],
    [text |-> <<>>,
     amount |-> RInt(0)],
    [text |-> <<"3", ".", "0">>,
     amount |-> RInt(3)],
    [text |-> <<"2", ".", "5">>,
     amount |-> Rat(5, 2)],
    [text |-> <<"a", "b", "c">>,
     amount |-> RInt(0)],
    [text |-> <<"1", ",", "0", "5", "0", ",", "0", "0", "0">>,
     amount |-> RInt(1050000)],
    [text |-> <<"2", ",", "0", "0", "0", ",", "0", "0", "0">>,
     amount |-> RInt(2000000)],
    [text |-> <<"$", "9", "0", "0", ",", "0", "0", "0">>,
     amount |-> RInt(900000)],
    [text |-> <<"1", "5", "0", ",", "0", "0", "0">>,
     amount |-> RInt(150000)],
    [text |-> <<"5", "0", ",", "0", "0", "0", ".", "5", "0">>,
     amount |-> Rat(100001, 2)],
    [text |-> <<"1", "5", "0", "0", "0">>,
     amount |-> RInt(15000)],
    [text |-> <<"2", "5", "0", "0", "0">>,
     amount |-> RInt(25000)],
    [text |-> <<"1", "0", "0", "0">>,
     amount |-> RInt(1000)],
    [text |-> <<"1", "2", "0", "0", "0", "0">>,
     amount |-> RInt(120000)],
    [text |-> <<"9", "0", "0", "0", "0">>,
     amount |-> RInt(90000)],
    [text |-> <<"1">>,
     amount |-> RInt(1)],
    [text |-> <<"6">>,
     amount |-> RInt(6)],
    [text |-> <<"9">>,
     amount |-> RInt(9)],
    [text |-> <<"1", "2">>,
     amount |-> RInt(12)],
    [text |-> <<"1", "5">>,
     amount |-> RInt(15)],
    [text |-> <<"-", "3">>,
     amount |-> RInt(-3)],
    [text |-> <<"2", "1", "0", "0", "0", "0", "0">>,
     amount |-> RInt(2100000)],
    [text |-> <<"1", "8", "0", "0", "0", "0", "0">>,
     amount |-> RInt(1800000)] >>

Entered(text) ==
    EnteredAmounts[CHOOSE i \in 1..Len(EnteredAmounts) : EnteredAmounts[i].text = text].amount

(***************************************************************************)
(* Fit scorer: properties                                                  *)
(***************************************************************************)

\* what a reader of the table expects a row to add to achievedScore
ExpectedCredit(achieved, row, box) ==
    IF row.criterion \in DOMAIN box /\ HasNumberWeight(box[row.criterion])
    THEN IF row.fit = "yes" THEN DAdd(achieved, DFromInt(box[row.criterion].weight))
         ELSE IF row.fit = "?" THEN DAdd(achieved, DMulInt(D03, box[row.criterion].weight))
         ELSE achieved
    ELSE achieved

RECURSIVE ExpectedAchieved(_, _)
ExpectedAchieved(rs, box) ==
    IF rs = <<>> THEN DFromInt(0)
    ELSE ExpectedCredit(ExpectedAchieved(SubSeq(rs, 1, Len(rs) - 1), box),
                        RowPool[rs[Len(rs)]], box)

\* round(achievedScore / totalPossibleScore * 100)
ExpectedScore(rs, box, total) ==
    Number(MathRound(DMulInt(DDivInt(ExpectedAchieved(rs, box), total), 100)))

PlainRowSeqs == {rs \in RowSeqs : \A i \in 1..Len(rs) : ~RowPool[rs[i]].markup}

\* the buy box of weights {Geography: 2, Industry: 3}
TwoCriterionBox ==
    [ZeroBuyBox EXCEPT !.geography = Weighted(2), !.industryType = Weighted(3)]

\* C4: with a positive totalPossibleScore the score is
\* round(achievedScore / totalPossibleScore * 100), a row adding its
\* criterion's full weight for "yes", 30% of it for "?", nothing otherwise;
\* weights {Geography: 2, Industry: 3} with a Yes row and a No row score 40.
\* Stated for table rows at the buy-box screen, and for table rows without
\* markup in the sourcing engine.
C4_FitScoreFormula ==
    /\ \A rs \in RowSeqs :
          /\ fitAnalysis.scorecardResult = TableOf[rs]
          /\ totalPossibleScore_BuyBox(buyBox) > 0
          => fitAnalysis.overallFitScore =
                 ExpectedScore(rs, buyBox, totalPossibleScore_BuyBox(buyBox))
    /\ \A i \in 1..Len(sourcingResultsGlobal) : \A rs \in PlainRowSeqs :
          /\ sourcingResultsGlobal[i].scorecard = TableOf[rs]
          /\ totalPossibleScore_Sourcing(buyBox) > 0
          => sourcingResultsGlobal[i].overallFitScore =
                 ExpectedScore(rs, buyBox, totalPossibleScore_Sourcing(buyBox))
    /\ buyBox = TwoCriterionBox
       => /\ fitAnalysis.scorecardResult = TableOf[<<1, 2>>]
             => fitAnalysis.overallFitScore = Number(40)
          /\ \A i \in 1..Len(sourcingResultsGlobal) :
                sourcingResultsGlobal[i].scorecard = TableOf[<<1, 2>>]
                => sourcingResultsGlobal[i].overallFitScore = Number(40)

\* both scorers have scored the Yes/No table against {Geography: 2, Industry: 3}
C4_Witness ==
    /\ buyBox = TwoCriterionBox
    /\ fitAnalysis.scorecardResult = TableOf[<<1, 2>>]
    /\ fitAnalysis.overallFitScore = Number(40)
    /\ sourcingResultsGlobal # <<>>
    /\ sourcingResultsGlobal[1].overallFitScore = Number(40)

\* C5 as stated: with weights {Geography: 2, Industry: 3}, a Yes row for
\* Geography and a "?" row for Industry, the score is 70.
C5_PartialCreditIs70 ==
    buyBox = TwoCriterionBox
    => /\ fitAnalysis.scorecardResult = TableOf[<<1, 3>>]
          => fitAnalysis.overallFitScore = Number(70)
       /\ \A i \in 1..Len(sourcingResultsGlobal) :
             sourcingResultsGlobal[i].scorecard = TableOf[<<1, 3>>]
             => sourcingResultsGlobal[i].overallFitScore = Number(70)

\* C5: with weights {Geography: 2, Industry: 3}, a Yes row for Geography and
\* a "?" row for Industry, the score is round((2 + 3 * 0.3) / 5 * 100) = 58.
C5_PartialCreditIs58 ==
    buyBox = TwoCriterionBox
    => /\ fitAnalysis.scorecardResult = TableOf[<<1, 3>>]
          => fitAnalysis.overallFitScore = Number(58)
       /\ \A i \in 1..Len(sourcingResultsGlobal) :
             sourcingResultsGlobal[i].scorecard = TableOf[<<1, 3>>]
             => sourcingResultsGlobal[i].overallFitScore = Number(58)

C5_Witness ==
    /\ buyBox = TwoCriterionBox
    /\ fitAnalysis.scorecardResult = TableOf[<<1, 3>>]
    /\ sourcingResultsGlobal # <<>>
    /\ sourcingResultsGlobal[1].scorecard = TableOf[<<1, 3>>]

\* every weighted criterion of the box has weight 0
AllWeightsZero(box) ==
    \A k \in DOMAIN box : HasNumberWeight(box[k]) => box[k].weight = 0

\* C6 as stated: if every criterion has weight 0, the scorer returns 50 for
\* every scorecard text, whatever it holds.
C6_FiftyForEveryText ==
    [][AllWeightsZero(buyBox)
       => /\ handleAnalyzeFitClick
             => fitAnalysis'.overallFitScore = Number(50)
          /\ analyzeListings
             => sourcingResultsGlobal'[1].overallFitScore = Number(50)]_vars

\* C6: if every criterion has weight 0, the scorer returns 50 for every
\* scorecard text that is not empty, whatever it holds.
C6_FiftyForEveryNonEmptyText ==
    AllWeightsZero(buyBox)
    => /\ fitAnalysis.scorecardResult # <<>>
          => fitAnalysis.overallFitScore = Number(50)
       /\ \A i \in 1..Len(sourcingResultsGlobal) :
             sourcingResultsGlobal[i].scorecard # <<>>
             => sourcingResultsGlobal[i].overallFitScore = Number(50)

\* a table awarding weights has been scored against a box without weights,
\* at both places
C6_Witness ==
    /\ AllWeightsZero(buyBox)
    /\ fitAnalysis.scorecardResult = TableOf[<<1, 3>>]
    /\ sourcingResultsGlobal # <<>>
    /\ sourcingResultsGlobal[1].scorecard = TableOf[<<1, 3>>]

\* the thirteen criteria that carry a weight
WeightedKeys ==
    {"geography", "industryType", "minSde", "maxSde", "customerConcentration",
     "minRecurringRevenue", "growthLevers", "industryTrends", "sellerRole",
     "teamStrength", "businessModel", "systemMessiness", "myPrimaryRole"}

RECURSIVE WeightSum(_, _)
WeightSum(box, keys) ==
    IF keys = {} THEN 0
    ELSE LET k == CHOOSE x \in keys : TRUE
         IN box[k].weight + WeightSum(box, keys \ {k})

\* the sum of the weights, the SDE pair counted once when both are weighted
ExpectedTotal(box) ==
    IF box.minSde.weight > 0 /\ box.maxSde.weight > 0
    THEN WeightSum(box, WeightedKeys \ {"maxSde"})
    ELSE WeightSum(box, WeightedKeys)

\* C7: totalPossibleScore is the sum of the weights of the weighted criteria,
\* without the max-SDE weight whenever the min-SDE and the max-SDE weight are
\* both present (positive), and never with an unweighted criterion; a table
\* whose only row is a Yes for Financials (SDE) therefore scores 100 against
\* a box weighting only the SDE pair.
C7_TotalPossibleScore ==
    /\ totalPossibleScore_BuyBox(buyBox) = ExpectedTotal(buyBox)
    /\ totalPossibleScore_Sourcing(buyBox) = ExpectedTotal(buyBox)
    /\ /\ buyBox = [ZeroBuyBox EXCEPT !.minSde = Weighted(2), !.maxSde = Weighted(2)]
       /\ fitAnalysis.scorecardResult = TableOf[<<4>>]
       => fitAnalysis.overallFitScore = Number(100)

\* the SDE row has been scored against a box weighting min and max SDE
C7_Witness ==
    /\ buyBox.minSde.weight > 0
    /\ buyBox.maxSde.weight > 0
    /\ fitAnalysis.scorecardResult = TableOf[<<4>>]
    /\ fitAnalysis.overallFitScore.kind = "number"
    /\ sourcingResultsGlobal # <<>>

\* the texts in which a reader finds no row of four cells
UnparseableTexts ==
    {<<"\n">>, NoTableText} \cup
    {TableOf[rs] : rs \in {s \in RowSeqs : \A i \in 1..Len(s) : RowPool[s[i]].cells < 4}}

Form ==
    LET inputs == CurrentInputs(valuationInputs)
        notes == RAdd(RAdd(Entered(inputs.amortizingSellerNoteAmount),
                           Entered(inputs.standbySellerNoteAmount)),
                      Entered(inputs.forgivableSellerNoteAmount))
    IN [sde |-> Entered(inputs.sde),
        askingMultiple |-> Entered(inputs.askingMultiple),
        seniorLoan |-> Entered(inputs.loanAmount),
        sellerNotes |-> notes,
        totalDebt |-> RAdd(Entered(inputs.loanAmount), notes),
        enterpriseValue |-> RMul(Entered(inputs.sde), Entered(inputs.askingMultiple))]

\* the fields that carry the total-debt error
Flagged == {f \in DOMAIN errors : errors[f] = errorMsg}

\* C2: whenever senior loan plus the three seller notes is strictly greater
\* than the enterprise value, the loan and each of the three notes carry the
\* total-debt error; when total debt is at most the enterprise value none of
\* them carries it.
C2_TotalDebtError ==
    IF RGreater(Form.totalDebt, Form.enterpriseValue)
    THEN Flagged = DebtFields
    ELSE Flagged = {}

\* the user has edited the form into a structure whose debt exceeds the value
C2_Witness ==
    /\ valuationInputs # NullInputs
    /\ RGreater(Form.totalDebt, Form.enterpriseValue)
    /\ Flagged = DebtFields

\* the debt equals the enterprise value, and nothing is flagged
C2_WitnessEqual ==
    /\ valuationInputs # NullInputs
    /\ Form.totalDebt = Form.enterpriseValue
    /\ Form.totalDebt.n > 0
    /\ Flagged = {}

\* C3: the total-debt error never changes an output: enterpriseValue is
\* SDE * askingMultiple and buyerEquity is enterpriseValue - seniorLoan - the
\* three notes, from the values as entered, whether or not the error is
\* raised; SDE 500000, multiple 3.0, loan 1,050,000 and notes summing to
\* 150,000 give a buyer equity of 300,000.
C3_OutputsIgnoreError ==
    LET c == calculations(CurrentInputs(valuationInputs))
    IN /\ c.enterpriseValue = Form.enterpriseValue
       /\ c.buyerEquity =
              RSub(RSub(Form.enterpriseValue, Form.seniorLoan), Form.sellerNotes)
       /\ /\ Form.sde = RInt(500000)
          /\ Form.askingMultiple = RInt(3)
          /\ Form.seniorLoan = RInt(1050000)
          /\ Form.sellerNotes = RInt(150000)
          => c.buyerEquity = RInt(300000)

\* the error is raised and the equity shown is negative
C3_Witness ==
    /\ Flagged = DebtFields
    /\ RLess(calculations(CurrentInputs(valuationInputs)).buyerEquity, Zero)

\* the scenario of the example has been entered
C3_WitnessScenario ==
    /\ Form.sde = RInt(500000)
    /\ Form.askingMultiple = RInt(3)
    /\ Form.seniorLoan = RInt(1050000)
    /\ Form.sellerNotes = RInt(150000)
    /\ calculations(CurrentInputs(valuationInputs)).buyerEquity = RInt(300000)

(***************************************************************************)
(* Financial analysis hub: properties                                      *)
(***************************************************************************)

HubData == CurrentData(financialAnalysisData)

\* the sum of the entered amounts of the add-back lines
RECURSIVE OtherAddBacks(_)
OtherAddBacks(addBacks) ==
    IF addBacks = <<>> THEN Zero
    ELSE RAdd(Entered(addBacks[1].amount), OtherAddBacks(Tail(addBacks)))

NormalizationHolds(c, ownerComp, others) ==
    /\ c.normalizedSde = RAdd(c.normalizedEbitda, ownerComp)
    /\ c.normalizedEbitda = RAdd(c.ebitda, others)

AnnualizedOf(r) ==
    r.calculations[CHOOSE i \in 1..Len(r.calculations) :
                       r.calculations[i].id = "ytd-annualized"]

\* C9: the annualized YTD figures multiply revenue, COGS and operating
\* expenses by 12 / monthsElapsed when monthsElapsed (1 or more) is below 12,
\* and equal the figures as entered when it is 12; the balance-sheet lines
\* are the same for any monthsElapsed.
C9_Annualization ==
    LET r == calculationResults(HubData)
        ann == AnnualizedOf(r)
        raw == r.ytdActualsCalculations
        months == Entered(HubData.ytdMonths)
        k == RDiv(RInt(12), months)
    IN /\ RGreater(months, Zero) /\ RLess(months, RInt(12))
          => /\ ann.revenue = RMul(raw.revenue, k)
             /\ ann.grossProfit = RMul(raw.grossProfit, k)
             /\ ann.ebitda = RMul(raw.ebitda, k)
       /\ months = RInt(12)
          => /\ ann.revenue = raw.revenue
             /\ ann.grossProfit = raw.grossProfit
             /\ ann.ebitda = raw.ebitda
             /\ ann.netIncome = raw.netIncome
       /\ ann.netWorkingCapital = raw.netWorkingCapital
       /\ ann.totalAssets = raw.totalAssets
       /\ ann.currentRatio = raw.currentRatio
       /\ ann.quickRatio = raw.quickRatio

\* six months of edited YTD revenue have been doubled
C9_Witness ==
    LET r == calculationResults(HubData)
    IN /\ Entered(HubData.ytdMonths) = RInt(6)
       /\ r.ytdActualsCalculations.revenue = RInt(1800000)
       /\ AnnualizedOf(r).revenue = RInt(3600000)

\* twelve months have been entered
C9_WitnessTwelve ==
    /\ Entered(HubData.ytdMonths) = RInt(12)
    /\ AnnualizedOf(calculationResults(HubData)).revenue = RInt(2100000)

\* the month count entered is zero or negative
NonPositiveMonths(data) == ~RGreater(Entered(data.ytdMonths), Zero)

\* the hub's annualized revenue is twelve times the YTD revenue
HubTreatsAsOneMonth(data) ==
    LET r == calculationResults(data)
    IN AnnualizedOf(r).revenue = RMul(r.ytdActualsCalculations.revenue, RInt(12))

\* C10: if monthsElapsed is 0 or negative, the YTD figures are annualized as
\* for one month (twelve times the YTD figure), in the hub and in the loader
\* of the projection modeler.
C10_NonPositiveMonthsAsOne ==
    [][/\ NonPositiveMonths(CurrentData(financialAnalysisData'))
          => HubTreatsAsOneMonth(CurrentData(financialAnalysisData'))
       /\ handleLoadFromAnalysis /\ NonPositiveMonths(HubData)
          => projectionData'.assumptions.startingRevenue =
                 RoundToString(RMul(Entered(HubData.ytdActuals.revenue), RInt(12)))]_vars

\* a negative month count is in the hub, where it leaves the YTD revenue as
\* entered, and has been loaded into the modeler, which started from the
\* latest historical year
C10_Witness ==
    LET r == calculationResults(HubData)
    IN /\ HubData.ytdMonths = <<"-", "3">>
       /\ projectionData # NullProjection
       /\ projectionData.assumptions.startingRevenue = NatToString(2500000)
       /\ AnnualizedOf(r).revenue = r.ytdActualsCalculations.revenue

(***************************************************************************)
(* Ratios of the hub and coverage of the deal                              *)
(***************************************************************************)

\* what the calculator shows for the stored form in the current mode
Deal == debtCalculations(CurrentInputs(valuationInputs), isAdvancedView, isStressed)

\* the statement a row of metrics was computed from
SourcePeriod(data, id) ==
    IF id \in {"ytd-annualized", data.ytdActuals.id} THEN data.ytdActuals
    ELSE data.periods[CHOOSE i \in 1..Len(data.periods) : data.periods[i].id = id]

IsZero(x) == ~IsNaN(x) /\ x.n = 0

RatioFields ==
    {"revenueGrowth", "grossMargin", "ebitdaMargin", "netMargin",
     "currentRatio", "quickRatio", "dso", "dpo"}

\* the guards of one row m computed from statement p; noPrior says that the
\* row has no earlier row or that the earlier row has no revenue
RatiosGuarded(m, p, noPrior) ==
    /\ \A f \in RatioFields : ~IsNaN(m[f])
    /\ IsZero(m.revenue) =>
          /\ IsZero(m.grossMargin) /\ IsZero(m.ebitdaMargin)
          /\ IsZero(m.netMargin) /\ IsZero(m.dso)
    /\ IsZero(parseNum(p.cogs)) => IsZero(m.dpo)
    /\ IsZero(RAdd(RAdd(parseNum(p.accountsPayable), parseNum(p.shortTermDebt)),
                   parseNum(p.otherCurrentLiabilities))) =>
          IsZero(m.currentRatio) /\ IsZero(m.quickRatio)
    /\ noPrior => IsZero(m.revenueGrowth)

C12_PeriodsNeverEmpty ==
    Len(CurrentData(financialAnalysisData).periods) >= 1

\* the spreadsheet whose only value column is the year to date has been
\* imported: it replaced the year-to-date statement and left no period
C12_Witness ==
    /\ financialAnalysisData # NullData
    /\ financialAnalysisData.periods = <<>>
    /\ financialAnalysisData.ytdActuals.periodName =
           <<"Y", "T", "D", " ", "2", "0", "2", "6">>
    /\ financialAnalysisData.ytdActuals.revenue = <<"4", "0", "0">>

(***************************************************************************)
(* The parsers and formatters of amounts                                   *)
(***************************************************************************)

\* the add-back, the SDE and the starting revenue as stored
AddBackText == CurrentData(financialAnalysisData).addBacks[1].amount
SdeText == CurrentInputs(valuationInputs).sde
StartingRevenueText == CurrentAssumptions(projectionData).startingRevenue

\* the parser as the specification words it: every character but the digits,
\* the sign and the decimal point is dropped, and what remains is read as a
\* decimal, 0 if it is none
parseAmount(text) ==
    OrElse(parseFloat(KeepChars(text, DigitsAndDot \cup {"-"})), Zero)

\* C13: each of the three parsers (parseNum of the hub, parseNum of the
\* modeler, parseCurrency of the calculator) drops the thousands separators
\* and every character but the digits, the sign and the decimal point, and
\* returns 0 when the rest is no decimal
C13_ParsersStripAndDefault ==
    /\ parseNum(AddBackText) = parseAmount(AddBackText)
    /\ parseCurrency(SdeText) = parseAmount(SdeText)
    /\ parseNum_Modeler(StartingRevenueText) = parseAmount(StartingRevenueText)

\* an amount with a currency sign is in the hub, where it reads as 0, and a
\* negative amount is in the calculator, where it reads as positive
C13_Witness ==
    /\ AddBackText = <<"$", "1", "0", "0", "0">>
    /\ parseNum(AddBackText) = Zero
    /\ SdeText = <<"-", "5", "0", "0">>
    /\ parseCurrency(SdeText) = RInt(500)
    /\ StartingRevenueText = <<"-", "5", "0", "0">>
    /\ parseNum_Modeler(StartingRevenueText) = RInt(-500)

\* a text that looks like a number: an optional sign, digits with or without
\* thousands separators, and at most one decimal point
NumericLooking(text) ==
    LET body == IF text # <<>> /\ text[1] = "-" THEN Tail(text) ELSE text
    IN /\ body # <<>>
       /\ IsDigit(body[1])
       /\ \A i \in 1..Len(body) : IsDigit(body[i]) \/ body[i] \in {",", "."}
       /\ Cardinality({i \in 1..Len(body) : body[i] = "."}) <= 1

\* C14: for a numeric-looking text x, parsing what formatCurrency makes of the
\* parsed x gives the parsed x again, on each of the three screens
C14_RoundTrip ==
    /\ NumericLooking(AddBackText) =>
          parseNum(formatCurrency_Hub(parseNum(AddBackText))) = parseNum(AddBackText)
    /\ NumericLooking(SdeText) =>
          parseCurrency(formatCurrency(parseCurrency(SdeText))) = parseCurrency(SdeText)
    /\ NumericLooking(StartingRevenueText) =>
          parseNum_Modeler(formatCurrency_Modeler(parseNum_Modeler(StartingRevenueText)))
              = parseNum_Modeler(StartingRevenueText)

\* the hub holds 12, which it formats as $12 and reads back as 0; the
\* calculator and the modeler hold 1,234.5, which they format as 1,235
C14_Witness ==
    /\ AddBackText = <<"1", "2">>
    /\ formatCurrency_Hub(parseNum(AddBackText)) = <<"$", "1", "2">>
    /\ parseNum(<<"$", "1", "2">>) = Zero
    /\ SdeText = <<"1", ",", "2", "3", "4", ".", "5">>
    /\ formatCurrency(parseCurrency(SdeText)) = <<"1", ",", "2", "3", "5">>
    /\ StartingRevenueText = <<"1", ",", "2", "3", "4", ".", "5">>
    /\ formatCurrency_Modeler(parseNum_Modeler(StartingRevenueText)) = <<"$", "1", ",", "2", "3", "5">>

(***************************************************************************)
(* Debt service and coverage of the deal                                   *)
(***************************************************************************)

\* C15: the coverage is flagged exactly when it is below 1.25 in simple mode
\* and below 1.50 in advanced mode, a coverage equal to the threshold is not
\* flagged, and flagged or not the results are the same functions of the form
C15_FlagBelowThreshold ==
    LET deal == Deal
        inputs == CurrentInputs(valuationInputs)
    IN /\ deal.isDscrLow <=>
              RLess(deal.dscr, IF isAdvancedView THEN Rat(3, 2) ELSE Rat(5, 4))
       /\ deal.dscr \in {Rat(3, 2), Rat(5, 4)} /\ (deal.dscr = Rat(3, 2)) = isAdvancedView
              => ~deal.isDscrLow
       /\ deal.totalDebtService = RAdd(deal.sbaDebtService, deal.sellerNoteDebtService)
       /\ RGreater(deal.totalDebtService, Zero) =>
              deal.netCashFlowToOwner =
                  RSub(RMul(deal.dscr, deal.totalDebtService), deal.totalDebtService)
       /\ deal.totalCashToClose =
              RAdd(RAdd(calculations(inputs).buyerEquity, parseCurrency(inputs.closingCosts)),
                   IF isAdvancedView THEN deal.liquidityTarget ELSE Zero)

\* a coverage of exactly 1.25 in simple mode: 162,500 of cash over 130,000
\* of debt service
C15_Witness ==
    /\ ~isAdvancedView
    /\ Deal.totalDebtService = RInt(130000)
    /\ Deal.dscr = Rat(5, 4)
    /\ ~Deal.isDscrLow

\* principal / payments * 12 as the code evaluates it in binary64, for whole
\* principals and up to Base payments
AnnualService64(principal, payments) ==
    DMulInt(DDivInt(DFromInt(principal), payments), 12)

\* the payments of the senior loan of the form
SbaPayments(inputs) == RMul(OrElse(parseInt(inputs.sbaTerm), Zero), RInt(12))

\* the form asks for an advanced-mode loan without interest
ZeroRateLoan(inputs) ==
    /\ isAdvancedView
    /\ OrElse(parseFloat(inputs.sbaRate), Zero) = Zero
    /\ RGreater(SbaPayments(inputs), Zero)

\* C16: a senior loan without interest is repaid in equal monthly payments of
\* principal / payments; 1,000,000 over 10 years costs 1,000,000 / 120 a
\* month and exactly 100,000 a year, in exact and in binary64 arithmetic
C16_ZeroRateLoan ==
    LET inputs == CurrentInputs(valuationInputs)
        principal == parseCurrency(inputs.loanAmount)
        payments == SbaPayments(inputs)
    IN ZeroRateLoan(inputs) =>
          /\ Deal.sbaDebtService = RMul(RDiv(principal, payments), RInt(12))
          /\ principal = RInt(1000000) /\ payments = RInt(120) =>
                /\ monthlyPayment(principal, Zero, payments) = Rat(1000000, 120)
                /\ Deal.sbaDebtService = RInt(100000)
                /\ AnnualService64(principal.n, payments.n) = DFromInt(100000)

\* the loan of 1,000,000 over 10 years without interest, in advanced mode
C16_Witness ==
    LET inputs == CurrentInputs(valuationInputs)
    IN /\ ZeroRateLoan(inputs)
       /\ parseCurrency(inputs.loanAmount) = RInt(1000000)
       /\ SbaPayments(inputs) = RInt(120)
       /\ Deal.sbaDebtService = RInt(100000)

\* the debt service of the simple rules: 13% of the loan and 5% of the note
RuleOfThumb(inputs) ==
    [sba |-> RMul(parseCurrency(inputs.loanAmount), Rat(13, 100)),
     seller |-> RMul(parseCurrency(inputs.amortizingSellerNoteAmount), Rat(5, 100))]

\* the debt service of the amortizing formulas, from the terms and rates
Amortized(inputs) ==
    [sba |-> RMul(monthlyPayment(parseCurrency(inputs.loanAmount),
                                 RDiv(RDiv(OrElse(parseFloat(inputs.sbaRate), Zero),
                                           RInt(100)), RInt(12)),
                                 SbaPayments(inputs)),
                  RInt(12)),
     seller |-> sellerNoteDebtService(inputs,
                    parseCurrency(inputs.amortizingSellerNoteAmount), TRUE)]

\* C17: in simple mode the senior loan costs 13% of its amount a year and the
\* seller note 5% of its amount, whatever the terms and rates; in advanced
\* mode both follow the terms and rates; the loader of the projection modeler
\* uses the simple rules
C17_SimpleModeRules ==
    [][LET inputs == CurrentInputs(valuationInputs')
           deal == debtCalculations(inputs, isAdvancedView', isStressed')
           expected == IF isAdvancedView' THEN Amortized(inputs) ELSE RuleOfThumb(inputs)
       IN /\ deal.sbaDebtService = expected.sba
          /\ deal.sellerNoteDebtService = expected.seller
          /\ handleLoadFromAnalysis =>
                projectionData'.assumptions.debtServiceAnnual =
                    RoundToString(RAdd(RuleOfThumb(inputs).sba, RuleOfThumb(inputs).seller))]_vars

\* simple mode on a form whose loan and note are at 100% a month: 13,000 for
\* the loan of 100,000 and 7,500 for the note of 150,000, where the terms
\* and rates ask for more
C17_Witness ==
    LET inputs == CurrentInputs(valuationInputs)
    IN /\ ~isAdvancedView
       /\ inputs.sbaRate = <<"1", "2", "0", "0">>
       /\ inputs.amortizingNoteRate = <<"1", "2", "0", "0">>
       /\ inputs.amortizingNoteType = "amortizing"
       /\ Deal.sbaDebtService = RInt(13000)
       /\ Deal.sellerNoteDebtService = RInt(7500)
       /\ RGreater(Amortized(inputs).sba, RInt(13000))
       /\ RGreater(Amortized(inputs).seller, RInt(7500))
       /\ projectionData # NullProjection
       /\ projectionData.assumptions.debtServiceAnnual = NatToString(20500)

(***************************************************************************)
(* Effects of the calculations on the state they read                      *)
(***************************************************************************)

\* C20: a calculation reads its input record and touches nothing else; the
\* loader of the projection modeler, which computes the starting figures
\* from the hub's data, leaves the hub's data as it found it
C20_LoaderLeavesHubData ==
    [][handleLoadFromAnalysis => financialAnalysisData' = financialAnalysisData]_vars

\* the hub's periods were stored as 2025, 2030 and the loader has run: the
\* stored list is now 2030, 2025
C20_Witness ==
    /\ financialAnalysisData # NullData
    /\ projectionData # NullProjection
    /\ Len(financialAnalysisData.periods) = 2
    /\ financialAnalysisData.periods[1].id = "p2"
    /\ financialAnalysisData.periods[1].periodName = <<"2", "0", "3", "0">>
    /\ financialAnalysisData.periods[2].id = "p1"

(***************************************************************************)
(* Edits made while a document scan is pending                             *)
(***************************************************************************)

\* C21: what the user edits while a scan is in flight is still there when the
\* scan completes: the data after the scan is the data before it with the
\* seven fields of the periods matched by name replaced and the unmatched
\* years appended
C21_ScanKeepsEdits ==
    [][\A reply \in ScanReplies :
          scanComplete(reply) =>
              LET current == CurrentData(financialAnalysisData)
                  used == IdsOf(scanData.periods) \cup {scanData.ytdActuals.id}
                             \cup IdsOf(current.periods) \cup {current.ytdActuals.id}
              IN financialAnalysisData' = mergedInto(current, reply, used)]_vars

\* a scan is pending and the table no longer holds what the scan captured
C21_Witness ==
    /\ scanData # NoScan
    /\ CurrentData(financialAnalysisData) # scanData
    /\ CurrentData(financialAnalysisData).addBacks # scanData.addBacks

(***************************************************************************)
(* The busy flags of the sourcing engine                                   *)
(***************************************************************************)

\* C22: every find-and-analyze run eventually ends with isSourcingGlobal and
\* isAnalyzingGlobal both false, whether the search and the analyses succeed
\* or fail
C22_RunEndsIdle ==
    (sourcingRun # NoRun) ~>
        (sourcingRun = NoRun /\ ~isSourcingGlobal /\ ~isAnalyzingGlobal)

\* a run has ended on a listing that failed: its error result is first in
\* the list and isAnalyzingGlobal is still true
C22_Witness ==
    /\ sourcingRun = NoRun
    /\ ~isSourcingGlobal
    /\ isAnalyzingGlobal
    /\ sourcingResultsGlobal # <<>>
    /\ sourcingResultsGlobal[1] = errorResult
(***************************************************************************)
(* The order of the periods in the ratio computation                       *)
(***************************************************************************)

\* the name of the period starts with an integer
HasYear(p) == ~IsNaN(parseInt(p.periodName))

\* a period that comes before one of an earlier year
OutOfOrder(order) ==
    \E i, j \in 1..Len(order) :
        /\ i < j
        /\ HasYear(order[i]) /\ HasYear(order[j])
        /\ YearOf(order[i]) > YearOf(order[j])

\* C23: the periods used for the ratios are in non-decreasing order of the
\* integer year parsed from their names, the annualized year-to-date period
\* among them with the current calendar year as its year
C23_ChronologicalOrder ==
    \A order \in allPeriodsForCalc(CurrentData(financialAnalysisData)) :
        /\ ~OutOfOrder(order)
        /\ \E k \in 1..Len(order) :
              order[k].id = "ytd-annualized" /\ YearOf(order[k]) = CurrentYear

\* a column between two years has lost its name: the list as stored is one
\* of the orders the sort can leave, and in it a later year comes first
C23_Witness ==
    LET data == CurrentData(financialAnalysisData)
        stored == Append(data.periods, ytdAnnualizedPeriod(data))
    IN /\ \E i \in 1..Len(data.periods) : data.periods[i].periodName = <<>>
       /\ stored \in allPeriodsForCalc(data)
       /\ OutOfOrder(stored)
(***************************************************************************)
(* The two call sites of the fit scorer                                    *)
(***************************************************************************)

\* C24: at the buy-box screen and in the sourcing engine alike, the criterion
\* is matched by its name without the (Weight: N) annotation and without
\* bold markup, and the fit cell is compared in lower case without HTML
\* tags: a table row earns what its reader sees in it, markup or not
C24_BothSitesNormalize ==
    /\ \A rs \in RowSeqs :
          /\ fitAnalysis.scorecardResult = TableOf[rs]
          /\ totalPossibleScore_BuyBox(buyBox) > 0
          => fitAnalysis.overallFitScore =
                 ExpectedScore(rs, buyBox, totalPossibleScore_BuyBox(buyBox))
    /\ \A i \in 1..Len(sourcingResultsGlobal) : \A rs \in RowSeqs :
          /\ sourcingResultsGlobal[i].scorecard = TableOf[rs]
          /\ totalPossibleScore_Sourcing(buyBox) > 0
          => sourcingResultsGlobal[i].overallFitScore =
                 ExpectedScore(rs, buyBox, totalPossibleScore_Sourcing(buyBox))

\* the table whose only row is "| **Financials (SDE)** (Weight: 2) | $400k |
\* <b>Yes</b> | ok |" has been scored at both sites against a buy box that
\* weighs the SDE floor alone: 100 at the buy-box screen, 0 in the engine
C24_Witness ==
    /\ buyBox.minSde.weight > 0
    /\ totalPossibleScore_BuyBox(buyBox) = buyBox.minSde.weight
    /\ fitAnalysis.scorecardResult = TableOf[<<4>>]
    /\ fitAnalysis.overallFitScore = Number(100)
    /\ sourcingResultsGlobal # <<>>
    /\ sourcingResultsGlobal[1].scorecard = TableOf[<<4>>]
    /\ sourcingResultsGlobal[1].overallFitScore = Number(0)
(***************************************************************************)
(* The revenue projection                                                  *)
(***************************************************************************)

\* the projection of the assumptions on screen
Projected == projections(CurrentAssumptions(projectionData))

\* startRev / 12 of the assumptions on screen
StartingMonth ==
    DDivInt(parseNum_Double(CurrentAssumptions(projectionData).startingRevenue), 12)

\* 1 + revGrowthMonthly of the assumptions on screen
MonthlyGrowth ==
    DAdd(DFromInt(1), Percent(CurrentAssumptions(projectionData).revenueGrowthY1_monthly))

\* C18: the revenue of the first month is startingRevenue / 12 and the
\* revenue of every later month is the revenue of the month before times
\* (1 + monthly growth)
C18_FirstMonthIsStart ==
    LET monthly == Projected.monthly
    IN /\ monthly[1] = StartingMonth
       /\ \A i \in 2..12 : monthly[i] = DMul(monthly[i - 1], MonthlyGrowth)

\* 1,200,000 a year growing 2.5% a month: the first month is 102,500, not
\* the 100,000 of 1,200,000 / 12
C18_Witness ==
    /\ projectionData # NullProjection
    /\ projectionData.assumptions.startingRevenue = <<"1", "2", "0", "0", "0", "0", "0">>
    /\ projectionData.assumptions.revenueGrowthY1_monthly = <<"2", ".", "5">>
    /\ StartingMonth = DFromInt(100000)
    /\ Projected.monthly[1] = DMul(StartingMonth, MonthlyGrowth)
    /\ MathRound(Projected.monthly[1]) = 102500

\* the assumptions on screen have no growth and no costs or taxes
AllRatesZero ==
    LET assumptions == CurrentAssumptions(projectionData)
    IN \A name \in {"revenueGrowthY1_monthly", "revenueGrowthY2_annual",
                    "revenueGrowthY3_annual", "cogsPercentOfRevenue",
                    "opExPercentOfRevenue", "opExGrowthAnnual", "effectiveTaxRate"} :
          parseNum_Modeler(assumptions[name]) = Zero

\* C19: without growth, costs and taxes, the revenue of the Y1 total (the sum
\* of the twelve months), of Y2 and of Y3 is the starting revenue exactly
C19_NoDrift ==
    AllRatesZero =>
        \A year \in 1..3 :
            Projected.annual[year] =
                parseNum_Double(CurrentAssumptions(projectionData).startingRevenue)

\* 1,000,000 a year with every rate at 0: twelve times the double nearest to
\* 1,000,000 / 12, added month after month, is not 1,000,000
C19_Witness ==
    /\ AllRatesZero
    /\ projectionData # NullProjection
    /\ projectionData.assumptions.startingRevenue = <<"1", "0", "0", "0", "0", "0", "0">>
    /\ Projected.annual[1] # DFromInt(1000000)
    /\ Projected.annual[2] = Projected.annual[1]
    /\ Projected.annual[3] = Projected.annual[1]
    /\ MathRound(Projected.annual[1]) = 1000000

(***************************************************************************)
(* Rows the scorer skips                                                   *)
(***************************************************************************)

\* C25: the first two lines of the text are never scored, and a later row
\* counts only if it has at least four columns (criterion with weight,
\* status, fit, rationale); a row with fewer is skipped: the score of a
\* reply is the score of its rows of four cells under the header
C25_FourColumnsToScore ==
    \A t \in ShortTables :
        /\ fitAnalysis.scorecardResult = t.text
           => fitAnalysis.overallFitScore =
                  calculateOverallFitScore_BuyBox(t.table, buyBox)
        /\ \A i \in 1..Len(sourcingResultsGlobal) :
              sourcingResultsGlobal[i].scorecard = t.text
              => sourcingResultsGlobal[i].overallFitScore =
                     calculateOverallFitScore_Sourcing(t.table, buyBox)

\* the first two lines are never scored, whatever they hold
C25_FirstTwoLinesSkipped ==
    \A first \in FirstTwoLines : \A rs \in ShortRowSeqs :
        LET text == Join(first \o RowTexts(rs), <<"\n">>)
            headed == Join(<<TableHeader, TableSeparator>> \o RowTexts(rs), <<"\n">>)
        IN /\ fitAnalysis.scorecardResult = text
              => fitAnalysis.overallFitScore =
                     calculateOverallFitScore_BuyBox(headed, buyBox)
           /\ \A i \in 1..Len(sourcingResultsGlobal) :
                 sourcingResultsGlobal[i].scorecard = text
                 => sourcingResultsGlobal[i].overallFitScore =
                        calculateOverallFitScore_Sourcing(headed, buyBox)

\* the table whose only row is "| Geography (Weight: 2) | Houston | Yes |",
\* three cells and no rationale, has been scored at both sites against a buy
\* box that weighs Geography alone: the row earned the whole weight
C25_Witness ==
    LET text == Join(<<TableHeader, TableSeparator, ShortRowPool[2].text>>, <<"\n">>)
    IN /\ totalPossibleScore_BuyBox(buyBox) = buyBox.geography.weight
       /\ fitAnalysis.scorecardResult = text
       /\ fitAnalysis.overallFitScore = Number(100)
       /\ sourcingResultsGlobal # <<>>
       /\ sourcingResultsGlobal[1].scorecard = text
       /\ sourcingResultsGlobal[1].overallFitScore = Number(100)

(***************************************************************************)
(* The score of a scorecard in which everything fits                       *)
(***************************************************************************)

\* C26: whatever the weights, as long as their total is positive, the
\* scorecard with one row for each recognized weighted criterion (one
\* "Financials (SDE)" row for the SDE pair) and "Yes" in every fit cell
\* scores exactly 100, on the buy-box screen and in the sourcing engine
C26_AllYesScoresHundred ==
    SumWeights(buyBox, BuyBoxKeys) > 0
    => /\ fitAnalysis # NoFitAnalysis
          => fitAnalysis.overallFitScore = Number(100)
       /\ \A i \in 1..Len(sourcingResultsGlobal) :
             sourcingResultsGlobal[i].overallFitScore = Number(100)

\* the all-Yes scorecard has been scored at both sites against a buy box
\* that weighs max SDE but not min SDE
C26_Witness ==
    /\ buyBox.minSde.weight = 0 /\ buyBox.maxSde.weight > 0
    /\ fitAnalysis # NoFitAnalysis
    /\ fitAnalysis.scorecardResult = AllYesOf[buyBox]
    /\ fitAnalysis.overallFitScore # Number(100)
    /\ sourcingResultsGlobal # <<>>
    /\ sourcingResultsGlobal[1].overallFitScore # Number(100)

\* the same claim for the buy boxes in which min SDE carries a weight
\* whenever max SDE does
C26_AllYesWhenMinSdeWeighs ==
    (SumWeights(buyBox, BuyBoxKeys) > 0
        /\ (buyBox.maxSde.weight > 0 => buyBox.minSde.weight > 0))
    => /\ fitAnalysis # NoFitAnalysis
          => fitAnalysis.overallFitScore = Number(100)
       /\ \A i \in 1..Len(sourcingResultsGlobal) :
             sourcingResultsGlobal[i].overallFitScore = Number(100)

(***************************************************************************)
(* The profile named 'Default'                                             *)
(***************************************************************************)

\* C27: once the profiles of the signed-in user are loaded, the list of saved
\* profiles holds a profile named exactly 'Default', whatever is saved
\* (overwrites confirmed), renamed, deleted, loaded or started anew
C27_DefaultAlwaysSaved ==
    user # NoUser => ProfileNamed(savedProfiles, DefaultName) # <<>>

\* the criteria were saved under the name "default" and the overwrite was
\* confirmed: the list holds "default" and no 'Default'
C27_Witness ==
    /\ user # NoUser
    /\ currentProfileName = Name(<<"d", "e", "f", "a", "u", "l", "t">>)
    /\ ProfileNamed(savedProfiles, <<"d", "e", "f", "a", "u", "l", "t">>) # <<>>
    /\ ProfileNamed(savedProfiles, DefaultName) = <<>>

\* 'Default' leaves the list only when the criteria are saved under a name
\* that differs from it in the case of its letters
C27_OnlySaveRemovesDefault ==
    [][(ProfileNamed(savedProfiles, DefaultName) # <<>>
            /\ ProfileNamed(savedProfiles', DefaultName) = <<>>)
        => \E name \in ProfileNames \ {DefaultName} :
              /\ ToLowerCase(name) = ToLowerCase(DefaultName)
              /\ handleSaveProfile(name, TRUE)]_vars

(***************************************************************************)
(* The buy-box history across sessions                                     *)
(***************************************************************************)

\* C28: after one user has signed out and another has signed in, no undo or
\* redo makes the buy box of the second user equal to criteria that only the
\* first user entered
C28_NoForeignCriteria ==
    \A uid \in Users : \A other \in Users \ {uid} :
        user = uid => buyBox \notin (EnteredBy[other] \ EnteredBy[uid])

\* the second user is signed in and an undo has put into the buy box
\* criteria that only the first user entered
C28_Witness ==
    /\ user = "u2"
    /\ buyBox \in (EnteredBy["u1"] \ EnteredBy["u2"])
    /\ future # <<>>

\* what the sign-out leaves of the history: the criteria of the user who
\* signed out are kept in past
C28_LogoutKeepsPast ==
    [][handleLogout => /\ past' = (IF buyBox = defaultBuyBoxCriteria THEN past
                                   ELSE Append(past, buyBox))
                       /\ buyBox' = defaultBuyBoxCriteria]_vars

(***************************************************************************)
(* Undo and redo                                                           *)
(***************************************************************************)

\* the states the history holds
HistoryStates ==
    {past[i] : i \in 1..Len(past)} \cup {buyBox} \cup {future[i] : i \in 1..Len(future)}

\* every criteria a caller hands to set
SetArguments == UNION {EnteredBy[uid] : uid \in Users} \cup {defaultBuyBoxCriteria}

\* C29: in the history (past, present, future) of the buy box, undo changes
\* nothing when past is empty and redo changes nothing when future is empty;
\* otherwise redo brings back the history as it was before the undo, and undo
\* after a set that changed the present brings back the past and the present
\* as they were before the set (the value set is then the one state in
\* future); and a state that was not in the history before a step is in it
\* afterwards only as the present, put there by a set: so the present is
\* the initial state or a state handed to set before
C29_UndoRedoInverse ==
    /\ [](LET h == History
          IN /\ h.past = <<>> => undone(h) = h
             /\ h.future = <<>> => redone(h) = h
             /\ h.past # <<>> => redone(undone(h)) = h
             /\ \A newPresent \in SetArguments \ {h.present} :
                   undone(set(h, newPresent)) = [h EXCEPT !.future = <<newPresent>>])
    /\ [][/\ HistoryStates' \subseteq HistoryStates \cup {buyBox'}
          /\ buyBox' \notin HistoryStates
             => past' = Append(past, buyBox) /\ future' = <<>>]_vars

\* a set has filled past and an undo has filled future
C29_Witness ==
    /\ user = "u1"
    /\ past # <<>>
    /\ future # <<>>
    /\ buyBox \in EnteredBy["u1"]

(***************************************************************************)
(* Reset, then reload                                                      *)
(***************************************************************************)

\* C30: after the user has reset the valuation inputs, the financial analysis
\* data or the projection data, a reload of the page by the same user does
\* not bring the cleared values back: what is null before the reload is null
\* after it
C30_ResetSurvivesReload ==
    [][reload => /\ valuationInputs = NullInputs => valuationInputs' = NullInputs
                 /\ financialAnalysisData = NullData => financialAnalysisData' = NullData
                 /\ projectionData = NullProjection => projectionData' = NullProjection]_vars

\* the valuation inputs were entered and then reset: the state is null and
\* the item in local storage still holds the inputs
C30_Witness ==
    /\ user # NoUser
    /\ valuationInputs = NullInputs
    /\ localStorage[user].valuationCalculatorInputs # NoItem

\* a reset leaves the item in local storage as it was
C30_ResetKeepsItem ==
    [][/\ handleClearValuationData
          => localStorage'[user].valuationCalculatorInputs = Item(valuationInputs)
       /\ handleClearFinancialAnalysisData
          => localStorage'[user].financialAnalysisData = Item(financialAnalysisData)
       /\ handleClearProjectionData
          => localStorage'[user].projectionData = Item(projectionData)]_vars
=============================================================================
